---------------------------- MODULE Spec2Model ----------------------------
(***************************************************************************)
(* A model of intercom-help-sync: the signature index of                   *)
(* src/src/utils/markdown.ts, the HTML <-> Markdown codec of               *)
(* src/src/utils/markdown-to-html.ts, and the push of local files to the   *)
(* remote of SyncToIntercom and the push command of src/src/cli.ts.        *)
(*                                                                         *)
(* A text is a sequence of lexemes.  A lexeme is a literal piece of the    *)
(* text (a tag, a host, a parameter name, a separator); the text is the    *)
(* concatenation of its lexemes.  Every regular expression of the source   *)
(* is modelled by the match it makes on a lexeme sequence: leftmost, with  *)
(* the greedy or lazy priority of its quantifiers.                         *)
(***************************************************************************)
EXTENDS Integers, Sequences, FiniteSets, TLC

VARIABLES
    last,          \* the exported function called last ("none" at the start)
    from,          \* where that call's first argument came from
    html,          \* first argument of the call (HTML or Markdown text)
    originalHtml,  \* second argument of the call (<<>> when it has none)
    ret,           \* what the call returned, or Thrown
    signedUrls,    \* the Map of restoreImageSignatures (markdown.ts:110)
    pc,            \* "idle", or "indexed": inside restoreImageSignatures
    doc,           \* the occurrences the first given text is composed of
    origDoc,       \* the occurrences the second given text is composed of
    stale,         \* the Map the previous call left held a key this call's lacks
    config,        \* IntercomConfig: defaultLocale
    options,       \* the options of the push command: dryRun
    queue,         \* the files of the push command not yet processed
    step,          \* where the push command is: in its loop, in dryRun, in syncFile
    disk,          \* the local files: front matter of each path
    remote,        \* the ids of the articles the remote holds
    calls,         \* the calls of IntercomClient made so far, in order
    writes,        \* the calls of writeArticle made so far, in order
    syncResult,    \* result: the SyncResult of the running syncFile
    totals,        \* totalCreated, totalUpdated and errors of the push command
    articles,      \* the articles of prepareArticles
    intercomId,    \* the intercomId of dryRun, of syncArticleGroup
    created,       \* the id of the article createArticle returned
    written,       \* how many articles of the group the loop of 299 has done
    entered,       \* the lengths of calls and writes when dryRun, syncFile began
    groups,        \* articleGroups of SyncToIntercom.syncAll, in insertion order
    done,          \* how many groups the loop of syncAll has done
    endpoint,      \* IntercomClient: "none", or the list a getAll... call is fetching
    page,          \* let page of getAllArticles, getAllCollections
    hasMore,       \* let hasMore of them
    collected,     \* the array they push the items of every response to
    requests,      \* the pages requested so far, in order
    server,        \* the total_pages the k-th response will carry
    returned,      \* what the call returned; <<>> before, Thrown when it rejected
    supportedLocales, \* config.supportedLocales of SyncFromIntercom, or NoLocales
    inventory,     \* the articles the remote holds, as getAllArticles returns them
    articlesDir,   \* the files of articlesDir: the front matter at each path
    remaining,     \* the articles the loop of syncAll has not yet taken
    pulled,        \* article: the article syncArticle is called on
    pending,       \* the locales of it that syncArticle has not yet synced
    synced,        \* the calls of syncArticleLocale that syncArticle has made
    pullResult,    \* result: the SyncResult of SyncFromIntercom.syncAll
    pullStep,      \* where syncAll is
    pulls,         \* how many times syncAll has been called
    targetDir,     \* the target directory of the init command: directories, files
    initStep,      \* where the init command is
    inits,         \* how many times the init command has been run
    found          \* the target directory as the running init command found it

codecVars ==
    <<last, from, html, originalHtml, ret, signedUrls, pc, doc, origDoc, stale>>
syncVars ==
    <<config, options, queue, step, disk, remote, calls, writes, syncResult, totals,
      articles, intercomId, created, written, entered>>
pageVars == <<endpoint, page, hasMore, collected, requests, server, returned>>
pullVars ==
    <<supportedLocales, inventory, articlesDir, remaining, pulled, pending, synced,
      pullResult, pullStep, pulls>>
initVars == <<targetDir, initStep, inits, found>>
restVars == <<pageVars, pullVars, initVars>>
moreVars == <<groups, done, restVars>>
notPageVars == <<codecVars, syncVars, groups, done, pullVars, initVars>>
notPullVars == <<codecVars, syncVars, groups, done, pageVars, initVars>>
notInitVars == <<codecVars, syncVars, groups, done, pageVars, pullVars>>
vars == <<codecVars, syncVars, moreVars>>

(***************************************************************************)
(* Lexemes                                                                 *)
(***************************************************************************)
QUOTE == "\""
APOS  == "'"
SP    == " "
NL    == "\n"
QM    == "?"
AMP   == "&"
EQ    == "="
HASH  == "#"
GT    == ">"

\* hosts: the two patterns of the regular expressions, and one outside them
HostDl    == "https://downloads.intercomcdn.com"
HostAtt   == "https://rimo.intercom-attachments-7.com"
HostOther == "https://example.com"
\* what may follow a host: the default port (valid), a port that is no number
Port443   == ":443"
BadPort   == ":x"

\* a value that an exception takes the place of
Thrown == <<"#thrown">>

\* ["'\s]: what ends a URL in the three regular expressions
UrlStop == {QUOTE, APOS, SP, NL}

\* https:\/\/(?:downloads\.intercomcdn\.com|[a-z0-9-]+\.intercom-attachments[a-z0-9.-]*)
KnownHosts == {HostDl, HostAtt}

(***************************************************************************)
(* Sequence helpers                                                        *)
(***************************************************************************)
Least(S) == CHOOSE j \in S : \A k \in S : j <= k

\* the least index from i on of a lexeme of Set in s, Len(s) + 1 when none:
\* where a greedy [^...]* that starts at i ends
FirstIn(s, i, Set) ==
    LET hits == {j \in i..Len(s) : s[j] \in Set}
    IN  IF hits = {} THEN Len(s) + 1 ELSE Least(hits)

IndexOf(s, Set) == FirstIn(s, 1, Set)

Tail2(s, i) == SubSeq(s, i, Len(s))

(***************************************************************************)
(* new URL(text), url.searchParams, url.origin, url.pathname               *)
(***************************************************************************)
\* percent-decoding of a name or a value, lexeme by lexeme
DecodeLexeme(t) ==
    CASE t = "%26" -> AMP
      [] t = "%3D" -> EQ
      [] t = "%3F" -> QM
      [] t = "%23" -> HASH
      [] OTHER -> t

\* the application/x-www-form-urlencoded serializer's percent-encoding
EncodeLexeme(t) ==
    CASE t = AMP -> "%26"
      [] t = EQ -> "%3D"
      [] t = QM -> "%3F"
      [] t = HASH -> "%23"
      [] OTHER -> t

Decode(s) == [i \in 1..Len(s) |-> DecodeLexeme(s[i])]
Encode(s) == [i \in 1..Len(s) |-> EncodeLexeme(s[i])]

\* one name=value piece of a query: split at the first "="
ParsePair(piece) ==
    LET e == IndexOf(piece, {EQ})
    IN  <<Decode(SubSeq(piece, 1, e - 1)), Decode(Tail2(piece, e + 1))>>

\* the query's pieces between "&", empty pieces skipped
RECURSIVE ParseQuery(_)
ParseQuery(q) ==
    IF q = <<>> THEN <<>>
    ELSE LET k == IndexOf(q, {AMP})
             piece == SubSeq(q, 1, k - 1)
         IN  (IF piece = <<>> THEN <<>> ELSE <<ParsePair(piece)>>)
                 \o ParseQuery(Tail2(q, k + 1))

\* a parser that accepts any port
ParseURLLenient(text) ==
    LET hasPort == Len(text) >= 2 /\ text[2] \in {Port443, BadPort}
        rest == Tail2(text, IF hasPort THEN 3 ELSE 2)
        p == IndexOf(rest, {QM, HASH})
        path == SubSeq(rest, 1, p - 1)
        afterPath == Tail2(rest, p)
        search == IF afterPath # <<>> /\ afterPath[1] = QM
                  THEN SubSeq(afterPath, 2, IndexOf(afterPath, {HASH}) - 1)
                  ELSE <<>>
    IN  [ok |-> TRUE,
         origin |-> <<text[1]>>,
         pathname |-> IF path = <<>> THEN <<"/">> ELSE path,
         searchParams |-> ParseQuery(search)]

\* new URL(text): text starts with a host lexeme.  The port must be a number
\* (TypeError otherwise); the default port is no part of the origin; an empty
\* path is "/"; the query runs from the first "?" to the first "#".
ParseURL(text) ==
    LET hasPort == Len(text) >= 2 /\ text[2] \in {Port443, BadPort}
        rest == Tail2(text, IF hasPort THEN 3 ELSE 2)
        p == IndexOf(rest, {QM, HASH})
        path == SubSeq(rest, 1, p - 1)
        afterPath == Tail2(rest, p)
        search == IF afterPath # <<>> /\ afterPath[1] = QM
                  THEN SubSeq(afterPath, 2, IndexOf(afterPath, {HASH}) - 1)
                  ELSE <<>>
    IN  [ok |-> ~(Len(text) >= 2 /\ text[2] = BadPort),
         origin |-> <<text[1]>>,
         pathname |-> IF path = <<>> THEN <<"/">> ELSE path,
         searchParams |-> ParseQuery(search)]

\* url.searchParams.toString()
RECURSIVE SearchParamsToString(_)
SearchParamsToString(params) ==
    IF params = <<>> THEN <<>>
    ELSE Encode(params[1][1]) \o <<EQ>> \o Encode(params[1][2])
         \o (IF Len(params) > 1 THEN <<AMP>> ELSE <<>>)
         \o SearchParamsToString(Tail(params))

\* a delete that drops only the first parameter of that name
SearchParamsDeleteFirst(params, name) ==
    LET hit == {i \in 1..Len(params) : params[i][1] = <<name>>}
    IN  IF hit = {} THEN params
        ELSE LET k == CHOOSE i \in hit : \A j \in hit : i <= j
             IN  SubSeq(params, 1, k - 1) \o Tail2(params, k + 1)

\* url.searchParams.delete(name): every parameter of that name goes
SearchParamsDelete(params, name) ==
    SelectSeq(params, LAMBDA p : p[1] # <<name>>)

\* a parameter list that forgets 'req'
DeleteSignatureParamsNoReq(params) ==
    SearchParamsDelete(SearchParamsDelete(params, "expires"), "signature")

\* ['expires', 'signature', 'req'].forEach(param => url.searchParams.delete(param))
DeleteSignatureParams(params) ==
    SearchParamsDelete(
        SearchParamsDelete(SearchParamsDelete(params, "expires"), "signature"),
        "req")


(***************************************************************************)
(* Exceptions: a function that throws returns Thrown, and so does every    *)
(* caller that does not catch it                                           *)
(***************************************************************************)
Cat(a, b) == IF a = Thrown \/ b = Thrown THEN Thrown ELSE a \o b

(***************************************************************************)
(* stripImageSignatures                                                    *)
(***************************************************************************)
\* the replace callback without its try/catch: the TypeError propagates
StripCallbackUncaught(match, baseUrl) ==
    LET url == ParseURL(match)
        remainingParams ==
            SearchParamsToString(DeleteSignatureParams(url.searchParams))
    IN  IF ~url.ok THEN Thrown
        ELSE IF remainingParams # <<>>
             THEN baseUrl \o <<QM>> \o remainingParams
             ELSE baseUrl

\* the replace callback (match, baseUrl) => ...
StripCallback(match, baseUrl) ==
    LET url == ParseURL(match)
        remainingParams ==
            SearchParamsToString(DeleteSignatureParams(url.searchParams))
    IN  IF ~url.ok THEN baseUrl                       \* catch: return baseUrl
        ELSE IF remainingParams # <<>>
             THEN baseUrl \o <<QM>> \o remainingParams
             ELSE baseUrl

\* html.replace(/(host[^"'\s?]*)\?[^"'\s]*/g, callback) from lexeme i on:
\* h is the next host, q the end of [^"'\s?]*, e the end of the match
RECURSIVE StripScan(_, _)
StripScan(s, i) ==
    LET h == FirstIn(s, i, KnownHosts)
        q == FirstIn(s, h + 1, UrlStop \cup {QM})
        e == FirstIn(s, q + 1, UrlStop) - 1
    IN  IF h > Len(s) THEN Tail2(s, i)
        ELSE IF q > Len(s) \/ s[q] # QM
             THEN Cat(SubSeq(s, i, h), StripScan(s, h + 1))
        ELSE Cat(SubSeq(s, i, h - 1),
                 Cat(StripCallback(SubSeq(s, h, e), SubSeq(s, h, q - 1)),
                     StripScan(s, e + 1)))

stripImageSignatures(h) == StripScan(h, 1)

(***************************************************************************)
(* restoreImageSignatures                                                  *)
(***************************************************************************)
EmptyMap == <<>>

MapHas(m, k) == k \in DOMAIN m

\* Map.set without overwriting: the first URL seen for a key stays
MapSetIfAbsent(m, k, v) ==
    [x \in (DOMAIN m) \cup {k} |-> IF x \in DOMAIN m THEN m[x] ELSE v]

\* Map.set(k, v): a later value replaces an earlier one
MapSet(m, k, v) ==
    [x \in (DOMAIN m) \cup {k} |-> IF x = k THEN v ELSE m[x]]

\* `${url.origin}${url.pathname}?${params}` or `${url.origin}${url.pathname}`
BaseKey(url) ==
    LET params == SearchParamsToString(DeleteSignatureParams(url.searchParams))
    IN  url.origin \o url.pathname
            \o (IF params # <<>> THEN <<QM>> \o params ELSE <<>>)

\* the while loop over urlRegex.exec(originalHtml), from lexeme i on
RECURSIVE IndexScan(_, _, _)
IndexScan(m, s, i) ==
    LET h == FirstIn(s, i, KnownHosts)
        q == FirstIn(s, h + 1, UrlStop \cup {QM})
        e == FirstIn(s, q + 1, UrlStop) - 1
        fullUrl == SubSeq(s, h, e)
        url == ParseURL(fullUrl)
    IN  IF h > Len(s) THEN m
        ELSE IF q > Len(s) \/ s[q] # QM THEN IndexScan(m, s, h + 1)
        ELSE IF url.ok
             THEN IndexScan(MapSet(m, BaseKey(url), fullUrl), s, e + 1)
             ELSE IndexScan(m, s, e + 1)             \* catch: skip

\* a Map that outlives the call: it starts from what the last call left
KeptMap(left) == left

\* const signedUrls = new Map(), whatever Map the previous call left
NewMap(left) == EmptyMap

\* the replace callback without its try/catch
RestoreCallbackUncaught(m, match) ==
    LET url == ParseURL(match)
        baseKey == BaseKey(url)
    IN  IF ~url.ok THEN Thrown
        ELSE IF MapHas(m, baseKey) /\ m[baseKey] # <<>> THEN m[baseKey]
        ELSE match

\* the replace callback (match) => signedUrls.get(baseKey) || match
RestoreCallback(m, match) ==
    LET url == ParseURL(match)
        baseKey == BaseKey(url)
    IN  IF ~url.ok THEN match                         \* catch: return match
        ELSE IF MapHas(m, baseKey) /\ m[baseKey] # <<>> THEN m[baseKey]
        ELSE match

\* a replace whose pattern stops before the query: /(host[^"'\s?]*)/g
RECURSIVE ReplaceScanBaseOnly(_, _, _)
ReplaceScanBaseOnly(m, s, i) ==
    LET h == FirstIn(s, i, KnownHosts)
        q == FirstIn(s, h + 1, UrlStop \cup {QM})
    IN  IF h > Len(s) THEN Tail2(s, i)
        ELSE Cat(SubSeq(s, i, h - 1),
                 Cat(RestoreCallback(m, SubSeq(s, h, q - 1)),
                     ReplaceScanBaseOnly(m, s, q)))

\* html.replace(/(host[^"'\s?]*)(?:\?[^"'\s]*)?/g, callback) from lexeme i on
RECURSIVE ReplaceScan(_, _, _)
ReplaceScan(m, s, i) ==
    LET h == FirstIn(s, i, KnownHosts)
        q == FirstIn(s, h + 1, UrlStop \cup {QM})
        e == IF q <= Len(s) /\ s[q] = QM
             THEN FirstIn(s, q + 1, UrlStop) - 1
             ELSE q - 1
    IN  IF h > Len(s) THEN Tail2(s, i)
        ELSE Cat(SubSeq(s, i, h - 1),
                 Cat(RestoreCallback(m, SubSeq(s, h, e)),
                     ReplaceScan(m, s, e + 1)))

restoreImageSignatures(h, original) ==
    ReplaceScan(IndexScan(NewMap(EmptyMap), original, 1), h, 1)


(***************************************************************************)
(* Inputs: HTML composed of image tags whose src is a URL of a catalogue.  *)
(* A catalogue entry states the URL's text and, beside it, what is true    *)
(* of that URL: whether its host is of a known pattern, whether it parses, *)
(* its canonical key, the query that remains without the signature.        *)
(***************************************************************************)
IMG == "<img"
SRC == " src=\""

HpDl  == [text |-> <<HostDl, "/i/1.png">>, known |-> TRUE, ok |-> TRUE,
          key |-> <<HostDl, "/i/1.png">>]
HpDlPort == [text |-> <<HostDl, Port443, "/i/1.png">>, known |-> TRUE,
          ok |-> TRUE, key |-> <<HostDl, "/i/1.png">>]
HpAtt == [text |-> <<HostAtt>>, known |-> TRUE, ok |-> TRUE,
          key |-> <<HostAtt, "/">>]
HpOther == [text |-> <<HostOther, "/i/1.png">>, known |-> FALSE, ok |-> TRUE,
          key |-> <<HostOther, "/i/1.png">>]
HpBad == [text |-> <<HostDl, BadPort, "/i/1.png">>, known |-> TRUE,
          ok |-> FALSE, key |-> <<HostDl, BadPort, "/i/1.png">>]

QNone == [text |-> <<>>, kept |-> <<>>, std |-> FALSE]
QSigA == [text |-> <<QM, "expires", EQ, "1", AMP, "signature", EQ, "a", AMP,
                     "req", EQ, "1">>, kept |-> <<>>, std |-> TRUE]
QSigB == [text |-> <<QM, "expires", EQ, "2", AMP, "signature", EQ, "b", AMP,
                     "req", EQ, "1">>, kept |-> <<>>, std |-> TRUE]
QWidth == [text |-> <<QM, "w", EQ, "1", AMP, "expires", EQ, "1">>,
           kept |-> <<"w", EQ, "1">>, std |-> FALSE]
QBare == [text |-> <<QM, "signature", EQ, "a", AMP, "w">>,
          kept |-> <<"w", EQ>>, std |-> FALSE]
QTwice == [text |-> <<QM, "expires", EQ, "1", AMP, "expires", EQ, "2">>,
           kept |-> <<>>, std |-> FALSE]
QEscaped == [text |-> <<QM, "w", EQ, "%26", "expires", EQ, "1", AMP,
                        "req", EQ, "1">>,
             kept |-> <<"w", EQ, "%26", "expires", "%3D", "1">>, std |-> FALSE]
QFragment == [text |-> <<QM, "expires", EQ, "1", HASH, "f">>, kept |-> <<>>,
              std |-> FALSE]

MkUrl(hp, q) ==
    [text |-> hp.text \o q.text,
     base |-> hp.text,
     known |-> hp.known,
     ok |-> hp.ok,
     query |-> q.text # <<>>,
     kept |-> q.kept,
     std |-> q.std,
     key |-> hp.key \o (IF q.kept # <<>> THEN <<QM>> \o q.kept ELSE <<>>)]

\* the URLs stripImageSignatures is called on
StripUrls ==
    {MkUrl(HpDl, q) : q \in {QNone, QSigA, QSigB, QWidth, QBare, QTwice,
                             QEscaped, QFragment}}
        \cup {MkUrl(HpAtt, q) : q \in {QNone, QSigA, QSigB, QBare}}
        \cup {MkUrl(HpBad, q) : q \in {QNone, QSigA, QWidth}}
        \cup {MkUrl(HpOther, QSigA)}

\* the URLs restoreImageSignatures is called on
RestoreUrls ==
    {MkUrl(HpDl, q) : q \in {QNone, QSigA, QSigB, QWidth}}
        \cup {MkUrl(HpDlPort, q) : q \in {QNone, QSigA}}
        \cup {MkUrl(HpOther, QSigA), MkUrl(HpBad, QSigA)}

\* bounds: the occurrences of one stripped text; of a restore call's two texts
MaxStripUrls == 2
MaxRestoreUrls == 3

SeqsUpTo(S, n) == UNION {[1..k -> S] : k \in 0..n}

\* <img src="URL">
RenderUrl(text) == <<IMG, SRC>> \o text \o <<QUOTE, GT>>

RECURSIVE Render(_)
Render(d) == IF d = <<>> THEN <<>> ELSE RenderUrl(d[1].text) \o Render(Tail(d))

(***************************************************************************)
(* The calls of the signature functions.  The texts are given at the       *)
(* start; every call is made on them or on what an earlier call returned.  *)
(***************************************************************************)
\* no id: the intercom_id of a file never pushed
NoId == 0
\* no defaultLocale in the configuration
NoLocale == "none"

\* a fresh SyncResult (part_000:112-118)
NewResult == [success |-> TRUE, created |-> 0, updated |-> 0, errors |-> 0]

\* no push command is running
NoSync ==
    /\ config = [defaultLocale |-> NoLocale] /\ options = [dryRun |-> FALSE]
    /\ queue = <<>> /\ step = "push" /\ disk = <<>> /\ remote = {}
    /\ calls = <<>> /\ writes = <<>> /\ syncResult = NewResult
    /\ totals = [created |-> 0, updated |-> 0, errors |-> 0]
    /\ articles = <<>> /\ intercomId = NoId /\ created = NoId /\ written = 0
    /\ entered = [calls |-> 0, writes |-> 0]

\* no syncAll, no pull, no init command is running
NoPages ==
    /\ endpoint = "none" /\ page = 1 /\ hasMore = TRUE /\ collected = <<>>
    /\ requests = <<>> /\ server = <<>> /\ returned = <<>>
\* config.supportedLocales is not specified
NoLocales == <<"*">>
\* no article
NoArticle == [id |-> NoId]
NoPull ==
    /\ supportedLocales = NoLocales /\ inventory = <<>> /\ articlesDir = <<>>
    /\ remaining = <<>> /\ pulled = NoArticle /\ pending = <<>> /\ synced = <<>>
    /\ pullResult = [success |-> TRUE, created |-> 0, updated |-> 0, errors |-> <<>>]
    /\ pullStep = "none" /\ pulls = 0
NoInit ==
    /\ targetDir = <<>> /\ initStep = "none" /\ inits = 0 /\ found = <<>>
NoMore == groups = <<>> /\ done = 0 /\ NoPages /\ NoPull /\ NoInit

Idle ==
    /\ last = "none" /\ from = "none" /\ pc = "idle"
    /\ ret = <<>> /\ signedUrls = EmptyMap /\ stale = FALSE

InitSig ==
    /\ Idle /\ NoSync /\ NoMore
    /\ \/ /\ doc \in SeqsUpTo(StripUrls, MaxStripUrls)
          /\ origDoc = <<>>
       \/ \E n \in 0..MaxRestoreUrls :
              /\ doc \in SeqsUpTo(RestoreUrls, n)
              /\ origDoc \in SeqsUpTo(RestoreUrls, MaxRestoreUrls - n)
    /\ html = Render(doc)
    /\ originalHtml = Render(origDoc)

\* stripImageSignatures(html)
Strip ==
    /\ pc = "idle" /\ last = "none"
    /\ ret' = stripImageSignatures(html)
    /\ last' = "strip" /\ from' = "input"
    /\ UNCHANGED <<html, originalHtml, signedUrls, pc, doc, origDoc, stale,
                 syncVars, moreVars>>

\* stripImageSignatures on what stripImageSignatures returned
StripAgain ==
    /\ pc = "idle" /\ last = "strip" /\ from = "input" /\ ret # Thrown
    /\ html' = ret
    /\ ret' = stripImageSignatures(ret)
    /\ from' = "strip"
    /\ UNCHANGED <<last, originalHtml, doc, origDoc, signedUrls, stale, pc,
                 syncVars, moreVars>>

\* restoreImageSignatures(h, original), lines 110-127: the index
RestoreIndex(h, original) ==
    /\ pc = "idle"
    /\ html' = h /\ originalHtml' = original
    /\ UNCHANGED <<doc, origDoc, syncVars, moreVars>>
    /\ signedUrls' = IndexScan(NewMap(signedUrls), original, 1)
    /\ stale' = (\E k \in DOMAIN signedUrls : k \notin DOMAIN signedUrls')
    /\ ret' = <<>>
    /\ last' = "restore"
    /\ pc' = "indexed"

\* restoreImageSignatures(html, originalHtml)
Restore ==
    /\ last = "none"
    /\ RestoreIndex(html, originalHtml)
    /\ from' = "input"

\* restoreImageSignatures(stripImageSignatures(h), h)
RestoreStripped ==
    /\ last = "strip" /\ from = "input" /\ ret # Thrown
    /\ RestoreIndex(ret, html)
    /\ from' = "strip"

\* a second call, restoreImageSignatures(originalHtml, html), after the first
RestoreSwapped ==
    /\ last = "restore" /\ from = "input" /\ ret # Thrown
    /\ RestoreIndex(originalHtml, html)
    /\ from' = "swapped"

\* restoreImageSignatures, lines 129-144: the replacement, and the return
RestoreReplace ==
    /\ pc = "indexed"
    /\ ret' = ReplaceScan(signedUrls, html, 1)
    /\ pc' = "idle"
    /\ UNCHANGED <<last, from, html, originalHtml, signedUrls, doc, origDoc, stale,
                 syncVars, moreVars>>

NextSig ==
    \/ Strip
    \/ StripAgain
    \/ Restore
    \/ RestoreStripped
    \/ RestoreSwapped
    \/ RestoreReplace

SpecSig == InitSig /\ [][NextSig]_vars


(***************************************************************************)
(* Lexemes of the codec (markdown-to-html.ts)                              *)
(***************************************************************************)
\* single characters that the patterns of the codec tell apart
\* (BT stands for the grave accent, U+0060, which a string here cannot hold)
BT    == "{grave}"
STAR  == "*"
DASH  == "-"
BANG  == "!"
LBR   == "["
RBR   == "]"
LPAR  == "("
RPAR  == ")"
PIPE  == "|"
DOT   == "."
LT    == "<"
SEMI  == ";"

\* tags; each is one lexeme from its "<" to its ">"
POpen      == "<p class=\"no-margin\">"
PPlain     == "<p>"
PCenter    == "<p class=\"intercom-align-center no-margin\">"
PRight     == "<p class=\"intercom-align-right no-margin\">"
PClose     == "</p>"
DivClose   == "</div>"
DivImg     == "<div class=\"intercom-container\">"
DivImgCenter == "<div class=\"intercom-container intercom-align-center\">"
Pre        == "<pre>"
PreClose   == "</pre>"
CodeOpen   == "<code>"
CodeClose  == "</code>"
BOpen      == "<b>"
BClose     == "</b>"
StrongOpen == "<strong>"
StrongClose == "</strong>"
IOpen      == "<i>"
IClose     == "</i>"
EmOpen     == "<em>"
EmClose    == "</em>"
UlOpen     == "<ul>"
UlClose    == "</ul>"
OlOpen     == "<ol>"
OlClose    == "</ol>"
LiOpen     == "<li>"
LiClose    == "</li>"
TrOpen     == "<tr>"
TrClose    == "</tr>"
TdOpen     == "<td>"
TdClose    == "</td>"
AClose     == "</a>"
Hr         == "<hr>"
Br         == "<br>"
Blink      == "<blink>"
\* the tags of the nodes that no pass names: a collapsible section, an
\* embedded video, a button
DivCollapsible == "<div class=\"intercom-interblocks-collapsible-section\">"
DivVideo   == "<div class=\"intercom-interblocks-video\">"
Iframe     == "<iframe src=\"https://www.youtube.com/embed/1\"></iframe>"
DivButton  == "<div class=\"intercom-interblocks-button\">"
TableOpen  ==
    "<div class=\"intercom-interblocks-table-container\"><table role=\"presentation\"><tbody>"
TableClose == "</tbody></table></div>"

\* <h1> .. <h4>, their aligned forms and their closing tags, by level
HOpen   == <<"<h1>", "<h2>", "<h3>", "<h4>">>
HCenter == <<"<h1 class=\"intercom-align-center\">",
             "<h2 class=\"intercom-align-center\">",
             "<h3 class=\"intercom-align-center\">",
             "<h4 class=\"intercom-align-center\">">>
HRight  == <<"<h1 class=\"intercom-align-right\">",
             "<h2 class=\"intercom-align-right\">",
             "<h3 class=\"intercom-align-right\">",
             "<h4 class=\"intercom-align-right\">">>
HClose  == <<"</h1>", "</h2>", "</h3>", "</h4>">>

\* the alignment directive <!-- align:... -->, by alignment
AlignComment ==
    [a \in {"center", "right"} |->
        IF a = "center" THEN "<!-- align:center -->" ELSE "<!-- align:right -->"]

\* tags in pieces: <div class="...callout" style="background-color: BG;
\* border-color: BORDER;">, <img src="URL" alt="ALT">, <a href="URL" ...>
DivCallout == "<div class=\"intercom-interblocks-callout\""
StyleBg    == " style=\"background-color: "
BorderSep  == "; border-color: "
StyleEnd   == ";\">"
ALT        == " alt=\""
AHref      == "<a href=\""
AEnd       == "\" target=\"_blank\" class=\"intercom-content-link\">"

\* the tag of a callout fence: three BT, callout-, COLOR
CalloutTag == "callout-"

\* entities
EAmp  == "&amp;"
ELt   == "&lt;"
EGt   == "&gt;"
EQuot == "&quot;"
EApos == "&#39;"
ENbsp == "&nbsp;"

\* \s
Whitespace == {SP, NL}

\* the lexemes that are a whole tag
Tags ==
    {POpen, PPlain, PCenter, PRight, PClose, DivClose, DivImg, DivImgCenter,
     Pre, PreClose, CodeOpen, CodeClose, BOpen, BClose, StrongOpen,
     StrongClose, IOpen, IClose, EmOpen, EmClose, UlOpen, UlClose, OlOpen,
     OlClose, LiOpen, LiClose, TrOpen, TrClose, TdOpen, TdClose, AClose, Hr,
     Br, Blink, TableOpen, TableClose, DivCollapsible, DivVideo, Iframe,
     DivButton}
        \cup {HOpen[l] : l \in 1..4} \cup {HCenter[l] : l \in 1..4}
        \cup {HRight[l] : l \in 1..4} \cup {HClose[l] : l \in 1..4}

\* the lexemes that begin with "<" and are no comment; that end with ">"
StartsLT == Tags \cup {DivCallout, IMG, AHref, LT}
EndsGT   == Tags \cup {StyleEnd, AEnd, GT}
                 \cup {AlignComment[a] : a \in DOMAIN AlignComment}

\* <p[^>]*>: the tags this pattern matches, <pre> among them
POpens == {POpen, PPlain, PCenter, PRight, Pre}

\* \w+: lexemes made of word characters only
Words == {"note", "more", "bold", "code", "js", "gray", "blue", "green",
          "red", "yellow", "purple", "a", "b", "c", "1", "2", "3"}

(***************************************************************************)
(* Strings and patterns on lexeme sequences                                *)
(***************************************************************************)
\* the element of a singleton: The({e : x \in {v}}) is e for x = v, with v
\* worked out once
The(S) == CHOOSE x \in S : TRUE

Greatest(S) == CHOOSE j \in S : \A k \in S : k <= j

FirstNotIn(s, i, Set) ==
    LET hits == {j \in i..Len(s) : s[j] \notin Set}
    IN  IF hits = {} THEN Len(s) + 1 ELSE Least(hits)

\* String.prototype.trimEnd, trim
trimEnd(s) ==
    LET hits == {j \in 1..Len(s) : s[j] \notin Whitespace}
    IN  IF hits = {} THEN <<>> ELSE SubSeq(s, 1, Greatest(hits))

trim(s) == LET t == trimEnd(s) IN Tail2(t, FirstNotIn(t, 1, Whitespace))

\* the literal pat is at j in s
MatchAt(s, j, pat) ==
    j + Len(pat) - 1 <= Len(s) /\ SubSeq(s, j, j + Len(pat) - 1) = pat

\* where the literal pat is first found from i on, Len(s) + 1 when nowhere:
\* the end of a lazy [\s\S]*? before pat
FindSeq(s, i, pat) ==
    LET hits == {j \in i..Len(s) : MatchAt(s, j, pat)}
    IN  IF hits = {} THEN Len(s) + 1 ELSE Least(hits)

\* Array.prototype.join
RECURSIVE Join(_, _)
Join(parts, sep) ==
    IF parts = <<>> THEN <<>>
    ELSE IF Len(parts) = 1 THEN parts[1]
    ELSE parts[1] \o sep \o Join(Tail(parts), sep)

\* String.prototype.split(sep) for a one-lexeme separator
RECURSIVE Split(_, _)
Split(s, sep) ==
    LET k == IndexOf(s, {sep})
    IN  IF k > Len(s) THEN <<s>>
        ELSE <<SubSeq(s, 1, k - 1)>> \o Split(Tail2(s, k + 1), sep)

\* the matches of /OPEN([\s\S]*?)CLOSE/g from i on, leftmost first, where
\* closeOf gives for each literal OPEN its literal CLOSE.  A match is
\* [b, e]: its extent, [cb, ce]: the extent of the group, open: its OPEN.
RECURSIVE PairMatches(_, _, _)
PairMatches(s, i, closeOf) ==
    LET hits == {j \in i..Len(s) : \E o \in DOMAIN closeOf : MatchAt(s, j, o)}
    IN  IF hits = {} THEN <<>>
        ELSE The({The({The({
                 IF c > Len(s) THEN PairMatches(s, h + 1, closeOf)
                 ELSE <<[b |-> h, cb |-> h + Len(open), ce |-> c - 1,
                         e |-> c + Len(closeOf[open]) - 1, open |-> open]>>
                          \o PairMatches(s, c + Len(closeOf[open]), closeOf) :
                 c \in {FindSeq(s, h + Len(open), closeOf[open])}}) :
                 open \in {CHOOSE o \in DOMAIN closeOf : MatchAt(s, h, o)}}) :
                 h \in {Least(hits)}})

\* String.prototype.replace(/.../g, ...): s from i on with each match ms[k]
\* replaced by reps[k]
RECURSIVE SpliceFrom(_, _, _, _)
SpliceFrom(s, i, ms, reps) ==
    IF ms = <<>> THEN Tail2(s, i)
    ELSE SubSeq(s, i, ms[1].b - 1) \o reps[1]
             \o SpliceFrom(s, ms[1].e + 1, Tail(ms), Tail(reps))

Splice(s, i, ms, reps) == The({SpliceFrom(s, i, m, r) : m \in {ms}, r \in {reps}})

\* the group of match m of s
Group(s, m) == SubSeq(s, m.cb, m.ce)

\* what a lexeme with a "&", "<", ">" or quote in it is made of
Spell(t) ==
    CASE t = BOpen -> <<LT, "b", GT>>
      [] t = BClose -> <<LT, "/b", GT>>
      [] t = PPlain -> <<LT, "p", GT>>
      [] t = PClose -> <<LT, "/p", GT>>
      [] OTHER -> <<t>>

\* characters written one after the other are the text they spell: where s
\* spells a tag, the tag stands
RECURSIVE Lexed(_)
Lexed(s) ==
    IF s = <<>> THEN <<>>
    ELSE The({IF tags = {} THEN <<s[1]>> \o Lexed(Tail(s))
              ELSE <<The(tags)>> \o Lexed(Tail2(s, 4)) :
              tags \in {{t \in {BOpen, BClose, PPlain, PClose} :
                           MatchAt(s, 1, Spell(t))}}})
(***************************************************************************)
(* Statements.  The functions of the codec are sequences of statements     *)
(* that each rewrite one text, "result = f(result)".  Statement(name, s)   *)
(* is the text after the statement called name, on the text s;             *)
(* Statements(names, s) is the text after the statements called names, in  *)
(* this order, where no statement is reached once one threw.  Both are     *)
(* defined after the statements themselves, at the end of the codec.       *)
(***************************************************************************)
RECURSIVE Statements(_, _)

(***************************************************************************)
(* htmlToMarkdown and its statements                                       *)
(***************************************************************************)
\* const CALLOUT_COLORS: background color -> color name
CALLOUT_COLORS ==
    [bg \in {"#e8e8e880", "#e8e8e8", "#e3e7fa80", "#d7efdc80", "#fed9db80",
             "#feedaf80"} |->
        CASE bg = "#e8e8e880" -> "gray"
          [] bg = "#e8e8e8" -> "gray"
          [] bg = "#e3e7fa80" -> "blue"
          [] bg = "#d7efdc80" -> "green"
          [] bg = "#fed9db80" -> "red"
          [] bg = "#feedaf80" -> "yellow"]

\* html.replace(/<[^>]*>/g, ''): from each lexeme that begins with "<" to the
\* next that ends with ">"
RECURSIVE stripHtmlTags(_)
stripHtmlTags(s) ==
    LET h == FirstIn(s, 1, StartsLT \cup {AlignComment[a] : a \in DOMAIN AlignComment})
        g == FirstIn(s, h, EndsGT)
    IN  IF h > Len(s) THEN s
        ELSE IF g > Len(s) THEN s
        ELSE SubSeq(s, 1, h - 1) \o stripHtmlTags(Tail2(s, g + 1))

\* the entities table, and entities[entity] || entity
DecodeEntity(t) ==
    CASE t = EAmp -> AMP
      [] t = ELt -> LT
      [] t = EGt -> GT
      [] t = EQuot -> QUOTE
      [] t = EApos -> APOS
      [] t = ENbsp -> SP
      [] OTHER -> t

\* the lexemes that hold a ";"
HasSemi == {EAmp, ELt, EGt, EQuot, EApos, ENbsp, SEMI, BorderSep, StyleEnd}

\* html.replace(/&[^;]+;/g, ...): an entity lexeme is a match; a bare "&"
\* starts a match that runs to the next ";", which the table does not hold
RECURSIVE ReplaceEntities(_)
ReplaceEntities(s) ==
    LET h == FirstIn(s, 1, {AMP, EAmp, ELt, EGt, EQuot, EApos, ENbsp})
        e == FirstIn(s, h + 1, HasSemi)
    IN  IF h > Len(s) THEN s
        ELSE IF s[h] # AMP
             THEN SubSeq(s, 1, h - 1) \o <<DecodeEntity(s[h])>>
                      \o ReplaceEntities(Tail2(s, h + 1))
        ELSE IF e > Len(s) \/ (e = h + 1 /\ s[e] = SEMI)
             THEN SubSeq(s, 1, h) \o ReplaceEntities(Tail2(s, h + 1))
        ELSE SubSeq(s, 1, e) \o ReplaceEntities(Tail2(s, e + 1))

\* the string returned is the characters put in for the entities, whatever
\* they spell
decodeHtmlEntities(s) == Lexed(ReplaceEntities(s))

\* convertInlineFormatting: <b>, <strong>; <i>, <em>; <code>
InlineBold(s) ==
    LET ms == PairMatches(s, 1, (<<BOpen>> :> <<BClose>>)
                                    @@ (<<StrongOpen>> :> <<StrongClose>>))
    IN  Splice(s, 1, ms, [k \in DOMAIN ms |->
            <<STAR, STAR>> \o Group(s, ms[k]) \o <<STAR, STAR>>])

InlineItalic(s) ==
    LET ms == PairMatches(s, 1, (<<IOpen>> :> <<IClose>>)
                                    @@ (<<EmOpen>> :> <<EmClose>>))
    IN  Splice(s, 1, ms, [k \in DOMAIN ms |->
            <<STAR>> \o Group(s, ms[k]) \o <<STAR>>])

InlineCode(s) ==
    LET ms == PairMatches(s, 1, <<CodeOpen>> :> <<CodeClose>>)
    IN  Splice(s, 1, ms, [k \in DOMAIN ms |->
            <<BT>> \o Group(s, ms[k]) \o <<BT>>])

convertInlineFormatting(s) ==
    Statements(<<"InlineBold", "InlineItalic", "InlineCode">>, s)

\* <p[^>]*>: each tag of POpens, paired with </p>
PCloseOf == [o \in {<<t>> : t \in POpens} |-> <<PClose>>]

\* content.replace(/<p[^>]*>([\s\S]*?)<\/p>/gi, '$1' + after)
UnwrapP(s, after) ==
    LET ms == PairMatches(s, 1, PCloseOf)
    IN  Splice(s, 1, ms, [k \in DOMAIN ms |-> Group(s, ms[k]) \o after])

\* the cells of one <tr>
TableCells(row) ==
    The({[k \in DOMAIN ms |->
             Statements(<<"UnwrapP", "trim", "convertInlineFormatting">>,
                        Group(row, ms[k]))] :
         ms \in {PairMatches(row, 1, <<TdOpen>> :> <<TdClose>>)}})

\* a line of the cells of the row alone, nothing added for the columns the
\* row does not have
TableLineUnpadded(cells, colCount) ==
    <<PIPE, SP>> \o Join(cells, <<SP, PIPE, SP>>) \o <<SP, PIPE>>

\* '| ' + cells.join(' | ') + ' |', for colCount cells
TableLine(cells, colCount) ==
    <<PIPE, SP>>
        \o Join([j \in 1..colCount |->
                    IF j <= Len(cells) THEN cells[j] ELSE <<>>],
                <<SP, PIPE, SP>>)
        \o <<SP, PIPE>>

\* the lines of the Markdown table of rows, each of them the cells of a row
TableLines(rows) ==
    The({<<TableLine(rows[1], colCount),
           <<PIPE, SP>>
               \o Join([j \in 1..colCount |-> <<DASH, DASH, DASH>>],
                       <<SP, PIPE, SP>>)
               \o <<SP, PIPE>>>>
             \o [k \in 1..(Len(rows) - 1) |-> TableLine(rows[k + 1], colCount)] :
         colCount \in {Greatest({Len(rows[k]) : k \in DOMAIN rows})}})

\* the rows of a <tbody> that have a cell
TableRows(tbodyContent) ==
    The({SelectSeq([k \in DOMAIN rms |-> TableCells(Group(tbodyContent, rms[k]))],
                   LAMBDA cells : Len(cells) > 0) :
         rms \in {PairMatches(tbodyContent, 1, <<TrOpen>> :> <<TrClose>>)}})

\* the replace callback of convertTables
TableToMarkdown(match, tbodyContent) ==
    The({IF rows = <<>> THEN match
         ELSE <<NL, NL>> \o Join(TableLines(rows), <<NL>>) \o <<NL, NL>> :
         rows \in {TableRows(tbodyContent)}})

convertTables(s) ==
    LET ms == PairMatches(s, 1, <<TableOpen>> :> <<TableClose>>)
    IN  Splice(s, 1, ms, [k \in DOMAIN ms |->
            TableToMarkdown(SubSeq(s, ms[k].b, ms[k].e), Group(s, ms[k]))])

\* the matches of the callout pattern: the opening tag with its style, the
\* content up to the first </div>
RECURSIVE CalloutMatches(_, _)
CalloutMatches(s, i) ==
    LET hits == {j \in i..Len(s) :
                    /\ s[j] = DivCallout /\ j + 5 <= Len(s)
                    /\ s[j + 1] = StyleBg /\ s[j + 2] \notin HasSemi
                    /\ s[j + 3] = BorderSep /\ s[j + 5] = StyleEnd}
    IN  IF hits = {} THEN <<>>
        ELSE The({The({
                 IF c > Len(s) THEN <<>>
                 ELSE <<[b |-> h, cb |-> h + 6, ce |-> c - 1, e |-> c,
                         bgColor |-> s[h + 2]]>> \o CalloutMatches(s, c + 1) :
                 c \in {FirstIn(s, h + 6, {DivClose})}}) :
                 h \in {Least(hits)}})

\* the replace callback of convertCallouts
CalloutToMarkdown(bgColor, content) ==
    LET colorName == IF bgColor \in DOMAIN CALLOUT_COLORS
                     THEN CALLOUT_COLORS[bgColor] ELSE "gray"
        innerContent == Statements(<<"UnwrapPLines", "convertInlineFormatting",
                                     "trim">>, content)
    IN  <<NL, NL, BT, BT, BT, CalloutTag, colorName, NL>> \o innerContent
            \o <<NL, BT, BT, BT, NL, NL>>

convertCallouts(s) ==
    LET ms == CalloutMatches(s, 1)
    IN  Splice(s, 1, ms, [k \in DOMAIN ms |->
            CalloutToMarkdown(ms[k].bgColor, Group(s, ms[k]))])

convertCodeBlocks(s) ==
    LET ms == PairMatches(s, 1, <<Pre, CodeOpen>> :> <<CodeClose, PreClose>>)
    IN  Splice(s, 1, ms, [k \in DOMAIN ms |->
            <<NL, NL, BT, BT, BT, NL>>
                \o Statements(<<"decodeHtmlEntities">>, Group(s, ms[k]))
                \o <<NL, BT, BT, BT, NL, NL>>])

\* the <img ...> tag at k of s: <img\s+[^>]*src="([^"]*)"[^>]*
\* (?:alt="([^"]*)")?[^>]*>.  g is the next ">"; the src is the last one of
\* the tag ([^>]* is greedy); the [^>]* after the src takes the rest of the
\* tag, so the optional alt group matches nothing and alt is undefined.
ImgTag(s, k) ==
    The({The({
        IF k >= Len(s) \/ s[k] # IMG \/ s[k + 1] \notin {SRC, ALT, SP, NL}
               \/ g > Len(s) \/ srcs = {}
        THEN [ok |-> FALSE]
        ELSE The({[ok |-> TRUE, e |-> g,
                   src |-> SubSeq(s, j + 1, FirstIn(s, j + 1, {QUOTE}) - 1),
                   alt |-> <<>>] :
                  j \in {Greatest(srcs)}}) :
        srcs \in {{j \in (k + 1)..(g - 1) :
                     s[j] = SRC /\ FirstIn(s, j + 1, {QUOTE}) < g}}}) :
        g \in {FirstIn(s, k + 1, EndsGT)}})

\* the matches of CONTAINER\s*<img ...>\s*<\/div>
RECURSIVE ContainerMatches(_, _, _)
ContainerMatches(s, i, container) ==
    The({The({The({
        IF h > Len(s) THEN <<>>
        ELSE IF img.ok /\ d <= Len(s) /\ s[d] = DivClose
             THEN <<[b |-> h, e |-> d, src |-> img.src, alt |-> img.alt]>>
                      \o ContainerMatches(s, d + 1, container)
        ELSE ContainerMatches(s, h + 1, container) :
        d \in {IF img.ok THEN FirstNotIn(s, img.e + 1, Whitespace) ELSE 0}}) :
        img \in {ImgTag(s, FirstNotIn(s, h + 1, Whitespace))}}) :
        h \in {FirstIn(s, i, {container})}})

\* the matches of the standalone <img ...>
RECURSIVE ImgMatches(_, _)
ImgMatches(s, i) ==
    The({The({
        IF h > Len(s) THEN <<>>
        ELSE IF img.ok
             THEN <<[b |-> h, e |-> img.e, src |-> img.src, alt |-> img.alt]>>
                      \o ImgMatches(s, img.e + 1)
        ELSE ImgMatches(s, h + 1) :
        img \in {ImgTag(s, h)}}) :
        h \in {FirstIn(s, i, {IMG})}})

\* ![altText](src)
MarkdownImage(m) == <<BANG, LBR>> \o m.alt \o <<RBR, LPAR>> \o m.src \o <<RPAR>>

\* html.replace(alignedImageRegex, ...)
AlignedImages(s) ==
    LET ms == ContainerMatches(s, 1, DivImgCenter)
    IN  Splice(s, 1, ms, [k \in DOMAIN ms |->
            <<NL, NL, AlignComment["center"]>> \o MarkdownImage(ms[k])
                \o <<NL, NL>>])

\* html.replace(imageRegex, ...)
ContainerImages(s) ==
    LET ms == ContainerMatches(s, 1, DivImg)
    IN  Splice(s, 1, ms, [k \in DOMAIN ms |->
            <<NL, NL>> \o MarkdownImage(ms[k]) \o <<NL, NL>>])

\* html.replace(standaloneImageRegex, ...)
StandaloneImages(s) ==
    LET ms == ImgMatches(s, 1)
    IN  Splice(s, 1, ms, [k \in DOMAIN ms |-> MarkdownImage(ms[k])])

convertImages(s) ==
    Statements(<<"AlignedImages", "ContainerImages", "StandaloneImages">>, s)

\* result.replace(/<hr\s*\/?>/gi, ...), result.replace(/<br\s*\/?>/gi, ...)
ReplaceLexeme(s, t, rep) == Join(Split(s, t), rep)

\* '#'.repeat(level)
Hashes(level) == [j \in 1..level |-> HASH]

\* one round of the loop of convertHeadings: html.replace(alignedRegex, ...)
AlignedHeadingsOfLevel(s, level) ==
    LET ms == PairMatches(s, 1, (<<HCenter[level]>> :> <<HClose[level]>>)
                                    @@ (<<HRight[level]>> :> <<HClose[level]>>))
    IN  Splice(s, 1, ms, [k \in DOMAIN ms |->
            <<NL, NL,
              AlignComment[IF ms[k].open = <<HCenter[level]>>
                           THEN "center" ELSE "right"]>>
                \o Hashes(level) \o <<SP>>
                \o Statements(<<"stripHtmlTags", "trim">>, Group(s, ms[k]))
                \o <<NL, NL>>])

\* and html.replace(regex, ...)
HeadingsOfLevel(s, level) ==
    LET ms == PairMatches(s, 1, (<<HOpen[level]>> :> <<HClose[level]>>)
                                    @@ (<<HCenter[level]>> :> <<HClose[level]>>)
                                    @@ (<<HRight[level]>> :> <<HClose[level]>>))
    IN  Splice(s, 1, ms, [k \in DOMAIN ms |->
            <<NL, NL>> \o Hashes(level) \o <<SP>>
                \o Statements(<<"stripHtmlTags", "trim">>, Group(s, ms[k]))
                \o <<NL, NL>>])

convertHeadings(s) ==
    Statements(<<"AlignedHeadings1", "Headings1", "AlignedHeadings2", "Headings2",
                 "AlignedHeadings3", "Headings3", "AlignedHeadings4", "Headings4">>,
               s)

extractListItems(listContent) ==
    LET ms == PairMatches(listContent, 1, <<LiOpen>> :> <<LiClose>>)
    IN  [k \in DOMAIN ms |->
            Statements(<<"UnwrapP", "convertInlineFormatting", "trim">>,
                       Group(listContent, ms[k]))]

\* `${index + 1}`
Digits == <<"1", "2", "3", "4", "5", "6", "7", "8", "9">>

\* html.replace(/<ul[^>]*>([\s\S]*?)<\/ul>/gi, ...)
UnorderedLists(s) ==
    LET ms == PairMatches(s, 1, <<UlOpen>> :> <<UlClose>>)
    IN  Splice(s, 1, ms, [k \in DOMAIN ms |->
            LET items == extractListItems(Group(s, ms[k]))
            IN  <<NL, NL>>
                    \o Join([n \in DOMAIN items |-> <<DASH, SP>> \o items[n]],
                            <<NL>>)
                    \o <<NL, NL>>])

\* html.replace(/<ol[^>]*>([\s\S]*?)<\/ol>/gi, ...)
OrderedLists(s) ==
    LET ms == PairMatches(s, 1, <<OlOpen>> :> <<OlClose>>)
    IN  Splice(s, 1, ms, [k \in DOMAIN ms |->
            LET items == extractListItems(Group(s, ms[k]))
            IN  <<NL, NL>>
                    \o Join([n \in DOMAIN items |->
                                <<Digits[n], DOT, SP>> \o items[n]], <<NL>>)
                    \o <<NL, NL>>])

convertLists(s) == Statements(<<"UnorderedLists", "OrderedLists">>, s)

\* the matches of <a\s+[^>]*href="([^"]*)"[^>]*>([\s\S]*?)<\/a>
RECURSIVE LinkMatches(_, _)
LinkMatches(s, i) ==
    The({The({The({
        IF h > Len(s) THEN <<>>
        ELSE IF q > Len(s) \/ s[q] # AEnd THEN LinkMatches(s, h + 1)
        ELSE IF c > Len(s) THEN <<>>
        ELSE <<[b |-> h, e |-> c, cb |-> q + 1, ce |-> c - 1,
                href |-> SubSeq(s, h + 1, q - 1)]>> \o LinkMatches(s, c + 1) :
        c \in {FirstIn(s, q + 1, {AClose})}}) :
        q \in {FirstIn(s, h + 1, {AEnd, QUOTE} \cup EndsGT)}}) :
        h \in {FirstIn(s, i, {AHref})}})

convertLinks(s) ==
    LET ms == LinkMatches(s, 1)
    IN  Splice(s, 1, ms, [k \in DOMAIN ms |->
            <<LBR>>
                \o Statements(<<"convertInlineFormatting", "stripHtmlTags", "trim">>,
                              Group(s, ms[k]))
                \o <<RBR, LPAR>> \o ms[k].href \o <<RPAR>>])

\* the replace callback of the three patterns of convertParagraphs
ParagraphToMarkdown(prefix, content) ==
    LET trimmed == Statements(<<"trim">>, content)
    IN  IF trimmed = <<>> THEN <<NL>>
        ELSE <<NL, NL>> \o prefix \o trimmed \o <<NL, NL>>

\* html.replace(alignedParagraphRegex, ...)
AlignedParagraphs(s) ==
    LET ms == PairMatches(s, 1, (<<PCenter>> :> <<PClose>>)
                                    @@ (<<PRight>> :> <<PClose>>))
    IN  Splice(s, 1, ms, [k \in DOMAIN ms |->
            ParagraphToMarkdown(
                <<AlignComment[IF ms[k].open = <<PCenter>>
                               THEN "center" ELSE "right"]>>,
                Group(s, ms[k]))])

\* html.replace(/<p\s+class="no-margin"[^>]*>([\s\S]*?)<\/p>/gi, ...)
NoMarginParagraphs(s) ==
    LET ms == PairMatches(s, 1, <<POpen>> :> <<PClose>>)
    IN  Splice(s, 1, ms, [k \in DOMAIN ms |->
            ParagraphToMarkdown(<<>>, Group(s, ms[k]))])

\* html.replace(/<p[^>]*>([\s\S]*?)<\/p>/gi, ...)
RemainingParagraphs(s) ==
    LET ms == PairMatches(s, 1, PCloseOf)
    IN  Splice(s, 1, ms, [k \in DOMAIN ms |->
            ParagraphToMarkdown(<<>>, Group(s, ms[k]))])

convertParagraphs(s) ==
    Statements(<<"AlignedParagraphs", "NoMarginParagraphs", "RemainingParagraphs">>,
               s)

\* text.replace(/\n{3,}/g, '\n\n')
RECURSIVE CollapseNewlines(_)
CollapseNewlines(s) ==
    LET hits == {j \in 1..(Len(s) - 2) :
                    s[j] = NL /\ s[j + 1] = NL /\ s[j + 2] = NL}
        h == Least(hits)
        e == FirstNotIn(s, h, {NL})
    IN  IF hits = {} THEN s
        ELSE SubSeq(s, 1, h - 1) \o <<NL, NL>> \o CollapseNewlines(Tail2(s, e))

\* text.split('\n').map(line => line.trimEnd()).join('\n')
TrimEndLines(text) ==
    LET lines == Split(text, NL)
    IN  Join([k \in DOMAIN lines |-> trimEnd(lines[k])], <<NL>>)

cleanupWhitespace(text) == Statements(<<"CollapseNewlines", "TrimEndLines">>, text)

htmlToMarkdown(h) ==
    IF h = <<>> THEN <<>>
    ELSE Statements(<<"stripImageSignatures", "convertTables", "convertCallouts",
                      "convertCodeBlocks", "convertImages", "HorizontalRules",
                      "convertHeadings", "convertLists", "convertLinks",
                      "convertParagraphs", "convertInlineFormatting", "LineBreaks",
                      "cleanupWhitespace", "trim">>, h)

(***************************************************************************)
(* markdownToHtml and its statements                                       *)
(***************************************************************************)
\* const CALLOUT_STYLES: color name -> background and border colors
CALLOUT_STYLES ==
    [color \in {"gray", "blue", "green", "red", "yellow"} |->
        CASE color = "gray" -> [bg |-> "#e8e8e880", border |-> "#73737633"]
          [] color = "blue" -> [bg |-> "#e3e7fa80", border |-> "#334bfa33"]
          [] color = "green" -> [bg |-> "#d7efdc80", border |-> "#1bb15733"]
          [] color = "red" -> [bg |-> "#fed9db80", border |-> "#fd3a5733"]
          [] color = "yellow" -> [bg |-> "#feedaf80", border |-> "#fbc91633"]]

\* three grave accents
Fence == <<BT, BT, BT>>

\* ^ and $ under the m flag: j begins a line of s; where the line of j ends
LineStart(s, j) == j = 1 \/ s[j - 1] = NL
LineEnd(s, j) == FirstIn(s, j, {NL}) - 1

\* the matches of /DELIM(.+?)DELIM/g: the nearest closing DELIM after at
\* least one lexeme, none of them a newline
RECURSIVE DelimMatches(_, _, _)
DelimMatches(s, i, delim) ==
    LET n == Len(delim)
        Closes(j) == {t \in (j + n + 1)..LineEnd(s, j + n) : MatchAt(s, t, delim)}
        hits == {j \in i..Len(s) : MatchAt(s, j, delim) /\ Closes(j) # {}}
    IN  IF hits = {} THEN <<>>
        ELSE The({The({
                 <<[b |-> h, cb |-> h + n, ce |-> t - 1, e |-> t + n - 1]>>
                     \o DelimMatches(s, t + n, delim) :
                 t \in {Least(Closes(h))}}) :
                 h \in {Least(hits)}})

\* the matches of /BT([^BT]+)BT/g
RECURSIVE CodeSpanMatches(_, _)
CodeSpanMatches(s, i) ==
    LET hits == {j \in i..(Len(s) - 2) :
                    s[j] = BT /\ s[j + 1] # BT /\ FirstIn(s, j + 1, {BT}) <= Len(s)}
    IN  IF hits = {} THEN <<>>
        ELSE The({The({
                 <<[b |-> h, cb |-> h + 1, ce |-> t - 1, e |-> t]>>
                     \o CodeSpanMatches(s, t + 1) :
                 t \in {FirstIn(s, h + 1, {BT})}}) :
                 h \in {Least(hits)}})

\* markdown.replace(/DELIM(.+?)DELIM/g, open + '$1' + close)
WrapDelim(s, delim, open, close) ==
    LET ms == DelimMatches(s, 1, delim)
    IN  Splice(s, 1, ms, [k \in DOMAIN ms |-> open \o Group(s, ms[k]) \o close])

\* markdown.replace(/BT([^BT]+)BT/g, '<code>$1</code>')
WrapCode(s) ==
    LET ms == CodeSpanMatches(s, 1)
    IN  Splice(s, 1, ms, [k \in DOMAIN ms |->
            <<CodeOpen>> \o Group(s, ms[k]) \o <<CodeClose>>])

convertInlineFormattingToHtml(s) ==
    Statements(<<"WrapBoldItalic", "WrapBold", "WrapItalic", "WrapCode">>, s)

\* the matches of the callout pattern: a fence, callout-, one of the five
\* color names, a newline, the content up to the next fence
RECURSIVE CalloutBlockMatches(_, _)
CalloutBlockMatches(s, i) ==
    LET hits == {j \in i..(Len(s) - 5) :
                    /\ MatchAt(s, j, Fence \o <<CalloutTag>>)
                    /\ s[j + 4] \in {"gray", "blue", "green", "red", "yellow"}
                    /\ s[j + 5] = NL
                    /\ FindSeq(s, j + 6, Fence) <= Len(s)}
    IN  IF hits = {} THEN <<>>
        ELSE The({The({
                 <<[b |-> h, cb |-> h + 6, ce |-> t - 1, e |-> t + 2,
                    color |-> s[h + 4]]>> \o CalloutBlockMatches(s, t + 3) :
                 t \in {FindSeq(s, h + 6, Fence)}}) :
                 h \in {Least(hits)}})

\* the replace callback of convertCalloutBlocks
CalloutToHtml(color, content) ==
    LET style == IF color \in DOMAIN CALLOUT_STYLES
                 THEN CALLOUT_STYLES[color] ELSE CALLOUT_STYLES["gray"]
        innerContent == Statements(<<"trim", "convertInlineFormattingToHtml">>,
                                   content)
    IN  <<DivCallout, StyleBg, style.bg, BorderSep, style.border, StyleEnd,
          POpen>> \o innerContent \o <<PClose, DivClose>>

convertCalloutBlocks(s) ==
    LET ms == CalloutBlockMatches(s, 1)
    IN  Splice(s, 1, ms, [k \in DOMAIN ms |->
            CalloutToHtml(ms[k].color, Group(s, ms[k]))])

EncodeEntity(t) ==
    CASE t = AMP -> EAmp
      [] t = LT -> ELt
      [] t = GT -> EGt
      [] t = QUOTE -> EQuot
      [] t = EAmp -> "&amp;amp;"
      [] t = ELt -> "&amp;lt;"
      [] t = EGt -> "&amp;gt;"
      [] t = EQuot -> "&amp;quot;"
      [] OTHER -> t

RECURSIVE encodeHtmlEntities(_)
encodeHtmlEntities(text) ==
    IF text = <<>> THEN <<>>
    ELSE LET spelt == Spell(text[1])
         IN  [k \in DOMAIN spelt |-> EncodeEntity(spelt[k])]
                 \o encodeHtmlEntities(Tail(text))

\* the matches of /FENCE(?!callout-)(\w*)\n([\s\S]*?)FENCE/g
RECURSIVE CodeBlockMatches(_, _)
CodeBlockMatches(s, i) ==
    LET Newline(j) == FirstNotIn(s, j + 3, Words)
        hits == {j \in i..(Len(s) - 3) :
                    /\ MatchAt(s, j, Fence)
                    /\ s[j + 3] # CalloutTag
                    /\ Newline(j) <= Len(s) /\ s[Newline(j)] = NL
                    /\ FindSeq(s, Newline(j) + 1, Fence) <= Len(s)}
    IN  IF hits = {} THEN <<>>
        ELSE The({The({
                 <<[b |-> h, cb |-> n + 1, ce |-> t - 1, e |-> t + 2]>>
                     \o CodeBlockMatches(s, t + 3) :
                 n \in {Newline(h)}, t \in {FindSeq(s, Newline(h) + 1, Fence)}}) :
                 h \in {Least(hits)}})

convertCodeBlocksToHtml(s) ==
    LET ms == CodeBlockMatches(s, 1)
    IN  Splice(s, 1, ms, [k \in DOMAIN ms |->
            <<Pre, CodeOpen>>
                \o Statements(<<"trim", "encodeHtmlEntities">>, Group(s, ms[k]))
                \o <<CodeClose, PreClose>>])

\* (#{1,4}) (.+)$ at j: the number of "#", 0 when the pattern fails there
HeadingLevel(s, j) ==
    The({IF k \in 1..4 /\ j + k <= Len(s) /\ s[j + k] = SP
                /\ LineEnd(s, j + k) > j + k
         THEN k ELSE 0 :
         k \in {FirstNotIn(s, j, {HASH}) - j}})

\* the matches of /<!-- align:(center|right|justify) -->(#{1,4}) (.+)$/gm
RECURSIVE AlignedHeadingMatches(_, _)
AlignedHeadingMatches(s, i) ==
    LET hits == {j \in i..Len(s) :
                    /\ s[j] \in {AlignComment[a] : a \in DOMAIN AlignComment}
                    /\ HeadingLevel(s, j + 1) > 0}
    IN  IF hits = {} THEN <<>>
        ELSE The({The({
                 <<[b |-> h, cb |-> h + level + 2, ce |-> e, e |-> e,
                    level |-> level,
                    align |-> CHOOSE a \in DOMAIN AlignComment :
                                  s[h] = AlignComment[a]]>>
                     \o AlignedHeadingMatches(s, e + 1) :
                 level \in {HeadingLevel(s, h + 1)}, e \in {LineEnd(s, h + 1)}}) :
                 h \in {Least(hits)}})

\* the matches of /^#{level} (.+)$/gm
RECURSIVE HeadingMatches(_, _, _)
HeadingMatches(s, i, level) ==
    LET hits == {j \in i..Len(s) :
                    LineStart(s, j) /\ HeadingLevel(s, j) = level}
    IN  IF hits = {} THEN <<>>
        ELSE The({The({
                 <<[b |-> h, cb |-> h + level + 1, ce |-> e, e |-> e]>>
                     \o HeadingMatches(s, e + 1, level) :
                 e \in {LineEnd(s, h)}}) :
                 h \in {Least(hits)}})

\* markdown.replace(alignedHeadingRegex, ...)
AlignedHeadingsToHtml(s) ==
    LET ms == AlignedHeadingMatches(s, 1)
    IN  Splice(s, 1, ms, [k \in DOMAIN ms |->
            <<IF ms[k].align = "center" THEN HCenter[ms[k].level]
              ELSE HRight[ms[k].level]>>
                \o Statements(<<"trim">>, Group(s, ms[k]))
                \o <<HClose[ms[k].level]>>])

\* one round of the loop of convertHeadingsToHtml
HeadingsToHtmlOfLevel(s, level) ==
    LET ms == HeadingMatches(s, 1, level)
    IN  Splice(s, 1, ms, [k \in DOMAIN ms |->
            <<HOpen[level]>> \o Statements(<<"trim">>, Group(s, ms[k]))
                \o <<HClose[level]>>])

convertHeadingsToHtml(s) ==
    Statements(<<"AlignedHeadingsToHtml", "HeadingsToHtml4", "HeadingsToHtml3",
                 "HeadingsToHtml2", "HeadingsToHtml1">>, s)

\* the matches of /PREFIX!\[([^\]]*)\]\(([^)]+)\)/g, PREFIX a literal
RECURSIVE ImageMatches(_, _, _)
ImageMatches(s, i, prefix) ==
    LET open == prefix \o <<BANG, LBR>>
        Rbr(j) == FirstIn(s, j + Len(open), {RBR})
        Rpar(j) == FirstIn(s, Rbr(j) + 2, {RPAR})
        hits == {j \in i..Len(s) :
                    /\ MatchAt(s, j, open)
                    /\ Rbr(j) < Len(s) /\ s[Rbr(j) + 1] = LPAR
                    /\ Rpar(j) <= Len(s) /\ Rpar(j) > Rbr(j) + 2}
    IN  IF hits = {} THEN <<>>
        ELSE The({The({
                 <<[b |-> h, e |-> rpar,
                    alt |-> SubSeq(s, h + Len(open), rbr - 1),
                    src |-> SubSeq(s, rbr + 2, rpar - 1)]>>
                     \o ImageMatches(s, rpar + 1, prefix) :
                 rbr \in {Rbr(h)}, rpar \in {Rpar(h)}}) :
                 h \in {Least(hits)}})

\* <img src="${src}"${altAttr}>
ImgHtml(m) ==
    <<IMG, SRC>> \o m.src \o <<QUOTE>>
        \o (IF m.alt # <<>> THEN <<ALT>> \o m.alt \o <<QUOTE>> ELSE <<>>)
        \o <<GT>>

\* markdown.replace(alignedImageRegex, ...)
AlignedImagesToHtml(s) ==
    LET ms == ImageMatches(s, 1, <<AlignComment["center"]>>)
    IN  Splice(s, 1, ms, [k \in DOMAIN ms |->
            <<DivImgCenter>> \o ImgHtml(ms[k]) \o <<DivClose>>])

\* markdown.replace(imageRegex, ...)
ImagesToHtml(s) ==
    LET ms == ImageMatches(s, 1, <<>>)
    IN  Splice(s, 1, ms, [k \in DOMAIN ms |->
            <<DivImg>> \o ImgHtml(ms[k]) \o <<DivClose>>])

convertImagesToHtml(s) == Statements(<<"AlignedImagesToHtml", "ImagesToHtml">>, s)

\* \|.+\|[ \t]* on the line that begins at b: its last "|", 0 when the line
\* is no row
RowLastPipe(s, b) ==
    IF b > Len(s) \/ s[b] # PIPE THEN 0
    ELSE The({IF s[lp] = PIPE /\ lp > b + 1 THEN lp ELSE 0 :
              lp \in {Greatest({x \in b..LineEnd(s, b) : s[x] # SP})}})

\* ((?:\|.+\|[ \t]*(?:\n|$))*) from b on: the last lexeme it takes
RECURSIVE BodyRowsEnd(_, _)
BodyRowsEnd(s, b) ==
    IF RowLastPipe(s, b) = 0 THEN b - 1
    ELSE The({IF end >= Len(s) THEN Len(s) ELSE BodyRowsEnd(s, end + 2) :
              end \in {LineEnd(s, b)}})

\* [\s\-:|]
SeparatorChars == {SP, NL, DASH, ":", PIPE}

\* \|[\s\-:|]+\|[ \t]*(?:\n|$) from n on: the last lexeme it takes, 0 when it
\* fails.  The class holds the newline, so the greedy run goes on over the
\* following lines as far as they hold nothing else, and ends with the last
\* "|" of the run that ends a line.
SeparatorEnd(s, n) ==
    LET After(q) == FirstNotIn(s, q + 1, {SP})
    IN  IF n > Len(s) \/ s[n] # PIPE THEN 0
        ELSE The({IF ends = {} THEN 0
                  ELSE The({IF after > Len(s) THEN Len(s) ELSE after :
                            after \in {After(Greatest(ends))}}) :
                  ends \in {{q \in (n + 2)..(FirstNotIn(s, n + 1, SeparatorChars) - 1) :
                               The({s[q] = PIPE /\ (a > Len(s) \/ s[a] = NL) :
                                    a \in {After(q)}})}}})

\* the matches of tableRegex
RECURSIVE TableMatches(_, _)
TableMatches(s, i) ==
    LET hits == {j \in i..Len(s) :
                    /\ LineStart(s, j)
                    /\ RowLastPipe(s, j) # 0
                    /\ The({end < Len(s) /\ SeparatorEnd(s, end + 2) # 0 :
                            end \in {LineEnd(s, j)}})}
    IN  IF hits = {} THEN <<>>
        ELSE The({The({The({
                 <<[b |-> h, e |-> e,
                    headerRow |-> SubSeq(s, h + 1, RowLastPipe(s, h) - 1),
                    bodyRows |-> SubSeq(s, sepEnd + 1, e)]>>
                     \o TableMatches(s, e + 1) :
                 e \in {BodyRowsEnd(s, sepEnd + 1)}}) :
                 sepEnd \in {SeparatorEnd(s, LineEnd(s, h) + 2)}}) :
                 h \in {Least(hits)}})

\* line.split('|').map(cell => cell.trim()).filter(cell => cell)
SplitCells(line) ==
    The({SelectSeq([k \in DOMAIN pieces |-> Statements(<<"trim">>, pieces[k])],
                   LAMBDA cell : cell # <<>>) :
         pieces \in {Split(line, PIPE)}})

\* <td><p class="no-margin">${cell}</p></td> for each of the cells
RECURSIVE TdCells(_)
TdCells(cells) ==
    IF cells = <<>> THEN <<>>
    ELSE <<TdOpen, POpen>> \o cells[1] \o <<PClose, TdClose>> \o TdCells(Tail(cells))

\* the lines of bodyRows.trim(), none when it is empty
BodyLines(bodyRows) ==
    The({IF trimmed = <<>> THEN <<>> ELSE Split(trimmed, NL) :
         trimmed \in {Statements(<<"trim">>, bodyRows)}})

\* the rows of the body: the cells of each line that has a cell
BodyCells(bodyRows) ==
    The({SelectSeq([k \in DOMAIN bodyLines |-> SplitCells(bodyLines[k])],
                   LAMBDA cells : Len(cells) > 0) :
         bodyLines \in {BodyLines(bodyRows)}})

\* <tr> ... </tr> around the cells
TableRow(cells) == <<TrOpen>> \o TdCells(cells) \o <<TrClose>>

\* the replace callback of convertTablesToHtml
TableToHtml(headerRow, bodyRows) ==
    The({<<TableOpen>> \o TableRow(headerCells)
             \o Join([k \in DOMAIN rows |->
                         TableRow([i \in 1..Len(headerCells) |->
                                      IF i <= Len(rows[k]) THEN rows[k][i]
                                      ELSE <<>>])],
                     <<>>)
             \o <<TableClose>> :
         headerCells \in {SplitCells(headerRow)}, rows \in {BodyCells(bodyRows)}})

convertTablesToHtml(s) ==
    LET ms == TableMatches(s, 1)
    IN  Splice(s, 1, ms, [k \in DOMAIN ms |->
            TableToHtml(ms[k].headerRow, ms[k].bodyRows)])

\* result.replace(/^---$/gm, '<hr>')
RECURSIVE HrMatches(_, _)
HrMatches(s, i) ==
    LET hits == {j \in i..(Len(s) - 2) :
                    /\ LineStart(s, j) /\ MatchAt(s, j, <<DASH, DASH, DASH>>)
                    /\ LineEnd(s, j) = j + 2}
    IN  IF hits = {} THEN <<>>
        ELSE The({<<[b |-> h, e |-> h + 2]>> \o HrMatches(s, h + 3) :
                  h \in {Least(hits)}})

convertHorizontalRules(s) ==
    LET ms == HrMatches(s, 1)
    IN  Splice(s, 1, ms, [k \in DOMAIN ms |-> <<Hr>>])

\* ^- .+$ and ^\d+\. .+$ at b: the length of the marker, 0 when the line of b
\* is no item
ItemMarker(s, b, ordered) ==
    The({LET n == IF ordered THEN d - b + 2 ELSE 2
             ok == IF ordered
                   THEN d > b /\ d < Len(s) /\ s[d] = DOT /\ s[d + 1] = SP
                   ELSE b < Len(s) /\ s[b] = DASH /\ s[b + 1] = SP
         IN  IF ok /\ LineEnd(s, b) >= b + n THEN n ELSE 0 :
         d \in {FirstNotIn(s, b, {"1", "2", "3", "4", "5", "6", "7", "8", "9"})}})

\* (?:ITEM\n?)+ from b on: the last lexeme it takes
RECURSIVE ItemsEnd(_, _, _)
ItemsEnd(s, b, ordered) ==
    IF b > Len(s) \/ ItemMarker(s, b, ordered) = 0 THEN b - 1
    ELSE The({IF end >= Len(s) THEN Len(s) ELSE ItemsEnd(s, end + 2, ordered) :
              end \in {LineEnd(s, b)}})

\* the matches of ulRegex, of olRegex
RECURSIVE ListMatches(_, _, _)
ListMatches(s, i, ordered) ==
    LET hits == {j \in i..Len(s) :
                    LineStart(s, j) /\ ItemMarker(s, j, ordered) # 0}
    IN  IF hits = {} THEN <<>>
        ELSE The({The({<<[b |-> h, e |-> e]>> \o ListMatches(s, e + 1, ordered) :
                       e \in {ItemsEnd(s, h, ordered)}}) :
                  h \in {Least(hits)}})

\* line.replace(/^- /, '') and line.replace(/^\d+\. /, '')
StripMarker(line, ordered) ==
    IF ordered
    THEN The({IF d > 1 /\ MatchAt(line, d, <<DOT, SP>>) THEN Tail2(line, d + 2)
              ELSE line :
              d \in {FirstNotIn(line, 1,
                                {"1", "2", "3", "4", "5", "6", "7", "8", "9"})}})
    ELSE IF MatchAt(line, 1, <<DASH, SP>>) THEN Tail2(line, 3) ELSE line

\* the replace callback of both: the items of match.trim().split('\n')
ListItems(match, ordered) ==
    The({Join([k \in DOMAIN lines |->
                  <<LiOpen, POpen>>
                      \o Statements(<<IF ordered THEN "StripOrderedMarker"
                                      ELSE "StripUnorderedMarker", "trim">>,
                                    lines[k])
                      \o <<PClose, LiClose>>],
              <<>>) :
         lines \in {Split(Statements(<<"trim">>, match), NL)}})

\* markdown.replace(ulRegex, ...)
UnorderedListsToHtml(s) ==
    LET ms == ListMatches(s, 1, FALSE)
    IN  Splice(s, 1, ms, [k \in DOMAIN ms |->
            <<UlOpen>> \o ListItems(SubSeq(s, ms[k].b, ms[k].e), FALSE)
                \o <<UlClose>>])

\* markdown.replace(olRegex, ...)
OrderedListsToHtml(s) ==
    LET ms == ListMatches(s, 1, TRUE)
    IN  Splice(s, 1, ms, [k \in DOMAIN ms |->
            <<OlOpen>> \o ListItems(SubSeq(s, ms[k].b, ms[k].e), TRUE)
                \o <<OlClose>>])

convertListsToHtml(s) ==
    Statements(<<"UnorderedListsToHtml", "OrderedListsToHtml">>, s)

\* the body of the loop of convertParagraphsToHtml for one line
ParagraphLine(line) ==
    The({LET aligns == {a \in DOMAIN AlignComment : trimmed[1] = AlignComment[a]}
             align == CHOOSE a \in aligns : TRUE
         IN  IF trimmed = <<>> THEN <<>>
             ELSE IF trimmed[1] \in StartsLT THEN trimmed
             ELSE IF aligns # {} /\ Len(trimmed) > 1
             THEN <<IF align = "center" THEN PCenter ELSE PRight>>
                      \o Statements(<<"trim">>, Tail(trimmed)) \o <<PClose>>
             ELSE <<POpen>> \o trimmed \o <<PClose>> :
         trimmed \in {Statements(<<"trim">>, line)}})

convertParagraphsToHtml(s) ==
    The({Join([k \in DOMAIN lines |-> ParagraphLine(lines[k])], <<>>) :
         lines \in {Split(s, NL)}})

\* the matches of /\[([^\]]+)\]\(([^)]+)\)/g
RECURSIVE MdLinkMatches(_, _)
MdLinkMatches(s, i) ==
    LET Rbr(j) == FirstIn(s, j + 1, {RBR})
        Rpar(j) == FirstIn(s, Rbr(j) + 2, {RPAR})
        hits == {j \in i..Len(s) :
                    /\ s[j] = LBR
                    /\ Rbr(j) > j + 1
                    /\ Rbr(j) < Len(s) /\ s[Rbr(j) + 1] = LPAR
                    /\ Rpar(j) <= Len(s) /\ Rpar(j) > Rbr(j) + 2}
    IN  IF hits = {} THEN <<>>
        ELSE The({The({
                 <<[b |-> h, e |-> rpar,
                    text |-> SubSeq(s, h + 1, rbr - 1),
                    href |-> SubSeq(s, rbr + 2, rpar - 1)]>>
                     \o MdLinkMatches(s, rpar + 1) :
                 rbr \in {Rbr(h)}, rpar \in {Rpar(h)}}) :
                 h \in {Least(hits)}})

convertLinksToHtml(s) ==
    LET ms == MdLinkMatches(s, 1)
    IN  Splice(s, 1, ms, [k \in DOMAIN ms |->
            <<AHref>> \o ms[k].href \o <<AEnd>> \o ms[k].text \o <<AClose>>])

\* the matches of the literal pat, leftmost first, none overlapping
RECURSIVE LiteralMatches(_, _, _)
LiteralMatches(s, i, pat) ==
    The({IF h > Len(s) THEN <<>>
         ELSE <<[b |-> h, e |-> h + Len(pat) - 1]>>
                  \o LiteralMatches(s, h + Len(pat), pat) :
         h \in {FindSeq(s, i, pat)}})

\* result.replace(/  \n/g, '<br>')
convertLineBreaks(s) ==
    LET ms == LiteralMatches(s, 1, <<SP, SP, NL>>)
    IN  Splice(s, 1, ms, [k \in DOMAIN ms |-> <<Br>>])

\* the matches of />\s+</g: the whitespace between a lexeme that ends with
\* ">" and one that begins with "<"
RECURSIVE GapMatches(_, _)
GapMatches(s, i) ==
    LET Next(j) == FirstNotIn(s, j, Whitespace)
        hits == {j \in (IF i < 2 THEN 2 ELSE i)..Len(s) :
                    /\ s[j] \in Whitespace /\ s[j - 1] \in EndsGT
                    /\ Next(j) <= Len(s)
                    /\ s[Next(j)] \in StartsLT
                           \cup {AlignComment[a] : a \in DOMAIN AlignComment}}
    IN  IF hits = {} THEN <<>>
        ELSE The({<<[b |-> h, e |-> n - 1]>> \o GapMatches(s, n + 1) :
                  h \in {Least(hits)}, n \in {Next(Least(hits))}})

\* the matches of /<p[^>]*>\s*<\/p>/g
RECURSIVE EmptyParagraphMatches(_, _)
EmptyParagraphMatches(s, i) ==
    LET Next(j) == FirstNotIn(s, j + 1, Whitespace)
        hits == {j \in i..Len(s) :
                    s[j] \in POpens /\ Next(j) <= Len(s) /\ s[Next(j)] = PClose}
    IN  IF hits = {} THEN <<>>
        ELSE The({<<[b |-> h, e |-> n]>> \o EmptyParagraphMatches(s, n + 1) :
                  h \in {Least(hits)}, n \in {Next(Least(hits))}})

\* html.replace(/>\s+</g, '><')
RemoveGaps(s) ==
    LET ms == GapMatches(s, 1)
    IN  Splice(s, 1, ms, [k \in DOMAIN ms |-> <<>>])

\* html.replace(/<p[^>]*>\s*<\/p>/g, '')
RemoveEmptyParagraphs(s) ==
    LET ms == EmptyParagraphMatches(s, 1)
    IN  Splice(s, 1, ms, [k \in DOMAIN ms |-> <<>>])

cleanupHtml(s) == Statements(<<"RemoveGaps", "RemoveEmptyParagraphs", "trim">>, s)

\* The statements of markdownToHtml.  originalHtml = <<>> stands for an absent
\* or empty second argument; r is the text after the twelve statements.
markdownToHtml(markdown, original) ==
    CHOOSE result \in
        {IF original # <<>> /\ r # Thrown
         THEN restoreImageSignatures(r, original) ELSE r :
            r \in {Statements(<<"convertCalloutBlocks", "convertCodeBlocksToHtml",
                                "convertHeadingsToHtml", "convertImagesToHtml",
                                "convertTablesToHtml", "convertHorizontalRules",
                                "convertListsToHtml", "convertParagraphsToHtml",
                                "convertLinksToHtml",
                                "convertInlineFormattingToHtml",
                                "convertLineBreaks", "cleanupHtml">>, markdown)}} :
        TRUE

(***************************************************************************)
(* The statements by name                                                  *)
(***************************************************************************)
Statement(name, s) ==
    CASE name = "trim" -> trim(s)
      [] name = "stripHtmlTags" -> stripHtmlTags(s)
      [] name = "decodeHtmlEntities" -> decodeHtmlEntities(s)
      [] name = "encodeHtmlEntities" -> encodeHtmlEntities(s)
      [] name = "UnwrapP" -> UnwrapP(s, <<>>)
      [] name = "UnwrapPLines" -> UnwrapP(s, <<NL>>)
      \* htmlToMarkdown
      [] name = "stripImageSignatures" -> stripImageSignatures(s)
      [] name = "convertTables" -> convertTables(s)
      [] name = "convertCallouts" -> convertCallouts(s)
      [] name = "convertCodeBlocks" -> convertCodeBlocks(s)
      [] name = "convertImages" -> convertImages(s)
      [] name = "AlignedImages" -> AlignedImages(s)
      [] name = "ContainerImages" -> ContainerImages(s)
      [] name = "StandaloneImages" -> StandaloneImages(s)
      [] name = "HorizontalRules" ->
             ReplaceLexeme(s, Hr, <<NL, NL, DASH, DASH, DASH, NL, NL>>)
      [] name = "convertHeadings" -> convertHeadings(s)
      [] name = "AlignedHeadings1" -> AlignedHeadingsOfLevel(s, 1)
      [] name = "AlignedHeadings2" -> AlignedHeadingsOfLevel(s, 2)
      [] name = "AlignedHeadings3" -> AlignedHeadingsOfLevel(s, 3)
      [] name = "AlignedHeadings4" -> AlignedHeadingsOfLevel(s, 4)
      [] name = "Headings1" -> HeadingsOfLevel(s, 1)
      [] name = "Headings2" -> HeadingsOfLevel(s, 2)
      [] name = "Headings3" -> HeadingsOfLevel(s, 3)
      [] name = "Headings4" -> HeadingsOfLevel(s, 4)
      [] name = "convertLists" -> convertLists(s)
      [] name = "UnorderedLists" -> UnorderedLists(s)
      [] name = "OrderedLists" -> OrderedLists(s)
      [] name = "convertLinks" -> convertLinks(s)
      [] name = "convertParagraphs" -> convertParagraphs(s)
      [] name = "AlignedParagraphs" -> AlignedParagraphs(s)
      [] name = "NoMarginParagraphs" -> NoMarginParagraphs(s)
      [] name = "RemainingParagraphs" -> RemainingParagraphs(s)
      [] name = "convertInlineFormatting" -> convertInlineFormatting(s)
      [] name = "InlineBold" -> InlineBold(s)
      [] name = "InlineItalic" -> InlineItalic(s)
      [] name = "InlineCode" -> InlineCode(s)
      [] name = "LineBreaks" -> ReplaceLexeme(s, Br, <<SP, SP, NL>>)
      [] name = "cleanupWhitespace" -> cleanupWhitespace(s)
      [] name = "CollapseNewlines" -> CollapseNewlines(s)
      [] name = "TrimEndLines" -> TrimEndLines(s)
      \* markdownToHtml
      [] name = "convertCalloutBlocks" -> convertCalloutBlocks(s)
      [] name = "convertCodeBlocksToHtml" -> convertCodeBlocksToHtml(s)
      [] name = "convertHeadingsToHtml" -> convertHeadingsToHtml(s)
      [] name = "AlignedHeadingsToHtml" -> AlignedHeadingsToHtml(s)
      [] name = "HeadingsToHtml4" -> HeadingsToHtmlOfLevel(s, 4)
      [] name = "HeadingsToHtml3" -> HeadingsToHtmlOfLevel(s, 3)
      [] name = "HeadingsToHtml2" -> HeadingsToHtmlOfLevel(s, 2)
      [] name = "HeadingsToHtml1" -> HeadingsToHtmlOfLevel(s, 1)
      [] name = "convertImagesToHtml" -> convertImagesToHtml(s)
      [] name = "AlignedImagesToHtml" -> AlignedImagesToHtml(s)
      [] name = "ImagesToHtml" -> ImagesToHtml(s)
      [] name = "convertTablesToHtml" -> convertTablesToHtml(s)
      [] name = "convertHorizontalRules" -> convertHorizontalRules(s)
      [] name = "convertListsToHtml" -> convertListsToHtml(s)
      [] name = "UnorderedListsToHtml" -> UnorderedListsToHtml(s)
      [] name = "OrderedListsToHtml" -> OrderedListsToHtml(s)
      [] name = "StripUnorderedMarker" -> StripMarker(s, FALSE)
      [] name = "StripOrderedMarker" -> StripMarker(s, TRUE)
      [] name = "convertParagraphsToHtml" -> convertParagraphsToHtml(s)
      [] name = "convertLinksToHtml" -> convertLinksToHtml(s)
      [] name = "convertInlineFormattingToHtml" -> convertInlineFormattingToHtml(s)
      [] name = "WrapBoldItalic" ->
             WrapDelim(s, <<STAR, STAR, STAR>>, <<BOpen, IOpen>>, <<IClose, BClose>>)
      [] name = "WrapBold" -> WrapDelim(s, <<STAR, STAR>>, <<BOpen>>, <<BClose>>)
      [] name = "WrapItalic" -> WrapDelim(s, <<STAR>>, <<IOpen>>, <<IClose>>)
      [] name = "WrapCode" -> WrapCode(s)
      [] name = "convertLineBreaks" -> convertLineBreaks(s)
      [] name = "cleanupHtml" -> cleanupHtml(s)
      [] name = "RemoveGaps" -> RemoveGaps(s)
      [] name = "RemoveEmptyParagraphs" -> RemoveEmptyParagraphs(s)

\* result is the text after all the statements but the last
Statements(names, s) ==
    IF names = <<>> THEN s
    ELSE CHOOSE text \in
             {IF result = Thrown THEN Thrown ELSE Statement(name, result) :
                 name \in {names[Len(names)]},
                 result \in {Statements(SubSeq(names, 1, Len(names) - 1), s)}} :
             TRUE

(***************************************************************************)
(* Inputs of the codec: texts composed of blocks of a catalogue.  An entry *)
(* states the block's text and, beside it, what the block is: its kind,    *)
(* the URL of an image, the color and the body of a callout.  A URL of a   *)
(* block is followed by a lexeme of UrlStop or by ")": it never runs into  *)
(* a tag, of which a pattern would take the part before its first blank.   *)
(***************************************************************************)
NoUrl == MkUrl([text |-> <<>>, known |-> FALSE, ok |-> FALSE, key |-> <<>>], QNone)

\* an asset whose file name holds parentheses
HpParen == [text |-> <<HostDl, "/i/1", LPAR, "2", RPAR, ".png">>, known |-> TRUE,
            ok |-> TRUE, key |-> <<HostDl, "/i/1", LPAR, "2", RPAR, ".png">>]

Block(kind, text, sep) ==
    [kind |-> kind, text |-> text, sep |-> sep, url |-> NoUrl, color |-> "",
     body |-> <<>>]

\* <div class="intercom-container"><img src="URL"></div>
HtmlImage(url) ==
    [Block("html-image", <<DivImg>> \o RenderUrl(url.text) \o <<DivClose>>, <<>>)
        EXCEPT !.url = url]

\* a callout div of background bg around one paragraph
HtmlCallout(bg, body) ==
    [Block("html-callout",
           <<DivCallout, StyleBg, bg, BorderSep, "#73737633", StyleEnd, POpen>>
               \o body \o <<PClose, DivClose>>, <<>>)
        EXCEPT !.color = bg, !.body = body]

\* a fence tagged callout-COLOR around body, and the blank line after it
MdCallout(color, body) ==
    [Block("md-callout",
           Fence \o <<CalloutTag, color, NL>> \o body \o <<NL>> \o Fence,
           <<NL, NL>>)
        EXCEPT !.color = color, !.body = body]

HtmlImages ==
    {HtmlImage(MkUrl(HpDl, q)) : q \in {QNone, QSigA, QSigB, QWidth}}
        \cup {HtmlImage(MkUrl(HpBad, QSigA)), HtmlImage(MkUrl(HpParen, QSigA)),
              HtmlImage(MkUrl(HpOther, QSigA))}

HtmlCallouts ==
    {HtmlCallout(bg, <<"note">>) :
        bg \in {"#e8e8e8", "#e3e7fa80", "#123456"}}

\* a table container: its rows, each of them the texts of its cells
HtmlTable(rows) ==
    Block("html-table",
          <<TableOpen>>
              \o Join([r \in DOMAIN rows |->
                          <<TrOpen>>
                              \o Join([c \in DOMAIN rows[r] |->
                                          <<TdOpen>> \o rows[r][c] \o <<TdClose>>],
                                      <<>>)
                              \o <<TrClose>>], <<>>)
              \o <<TableClose>>, <<>>)

\* tables whose rows differ in length: a short last row, a short first row,
\* an empty cell between two others and a row without a cell
HtmlTables ==
    {HtmlTable(<<<<<<POpen, "a", PClose>>, <<POpen, "b", PClose>>>>,
                 <<<<POpen, "c", PClose>>>>>>),
     HtmlTable(<<<<<<"a">>>>, <<<<"b">>, <<POpen, "c", PClose>>>>>>),
     HtmlTable(<<<<<<"a">>, <<>>, <<"c">>>>, <<>>, <<<<POpen, "b", PClose>>>>>>)}

\* the nodes kept as raw HTML: a collapsible section around a paragraph, an
\* embedded video, a button around its anchor
HtmlOpaque ==
    {Block("html-opaque", <<DivCollapsible, POpen, "note", SP, BOpen, "bold", BClose,
                            PClose, DivClose>>, <<>>),
     Block("html-opaque", <<DivVideo, Iframe, DivClose>>, <<>>),
     Block("html-opaque", <<DivButton, AHref, HostOther, AEnd, "more", AClose,
                            DivClose>>, <<>>)}

\* <pre><code>, the code t with its entities escaped, </code></pre>
HtmlCode(t) ==
    [Block("html-code",
           <<Pre, CodeOpen>> \o encodeHtmlEntities(t) \o <<CodeClose, PreClose>>,
           <<>>)
        EXCEPT !.body = t]

\* code of two lines, code with an opening tag in it, with a tag pair, with
\* one and with two blank lines
HtmlCodes ==
    {HtmlCode(<<"code", NL, "more">>), HtmlCode(<<BOpen, NL, "code">>),
     HtmlCode(<<BOpen, "bold", BClose>>), HtmlCode(<<"code", NL, NL, "more">>),
     HtmlCode(<<"code", NL, NL, NL, "more">>)}

\* the other nodes of an article
HtmlNodes ==
    {Block("html", <<POpen, "note", SP, BOpen, "bold", BClose, Br, "more", PClose>>, <<>>),
     Block("html", <<POpen, "note", PClose, SP, POpen, "more", PClose>>, <<>>),
     Block("html", <<UlOpen, LiOpen, POpen, "a", PClose, LiClose, LiOpen, "b",
                     LiClose, UlClose>>, <<>>),
     Block("html", <<HOpen[2], "note", HClose[2], Hr>>, <<>>),
     Block("html", <<PCenter, AHref, HostOther, AEnd, IOpen, "more", IClose, AClose,
                     PClose>>, <<>>),
     Block("html", <<DivImgCenter, IMG, SRC, HostOther, QUOTE, ALT, "note", QUOTE,
                     GT, DivClose>>, <<>>)}

\* malformed and unrecognized markup
HtmlBroken ==
    {Block("broken", <<DivCallout, StyleBg, "#e3e7fa80">>, <<>>),
     Block("broken", <<LT, "b", SP, AMP, "note">>, <<>>),
     Block("broken", <<PClose, Blink, DivClose>>, <<>>),
     Block("broken", <<Pre, CodeOpen, "code", BOpen>>, <<>>),
     Block("broken", <<IMG, GT, AHref, HostDl, QM, QUOTE>>, <<>>)}

MdCallouts ==
    {MdCallout(color, <<"note">>) :
        color \in {"gray", "blue", "green", "yellow", "purple"}}
        \cup {MdCallout("blue", <<"note", NL, "more">>),
              MdCallout("red", <<"note", SP, STAR, STAR, "bold", STAR, STAR>>)}

\* a line of text, after an alignment directive when align names one, and
\* the newline after it
MdLine(align, body) ==
    [Block("md-line",
           (IF align = "" THEN <<>> ELSE <<AlignComment[align]>>) \o body, <<NL>>)
        EXCEPT !.color = align, !.body = body]

\* lines of text, one of them starting with a "<" that opens no tag; a line
\* that starts with a tag; a list of one item with a line right after it
MdLines ==
    {MdLine("", <<"note">>), MdLine("center", <<"more">>),
     MdLine("", <<LT, SP, "note">>),
     Block("md-tagline", <<BOpen, "bold", BClose>>, <<NL>>),
     Block("md-list", <<DASH, SP, "a">>, <<NL>>)}

MdNodes ==
    {Block("md", <<"note", SP, STAR, "more", STAR, SP, SP, NL, "more">>, <<NL, NL>>),
     Block("md", Fence \o <<"js", NL, LT, "b", GT, NL, HASH, SP, "code", NL>> \o Fence,
           <<NL, NL>>),
     Block("md", <<PIPE, SP, "a", SP, PIPE, SP, "b", SP, PIPE, NL, PIPE, DASH, DASH,
                   DASH, PIPE, DASH, DASH, DASH, PIPE, NL, PIPE, SP, "c", SP,
                   PIPE, SP, PIPE>>, <<NL, NL>>),
     Block("md", <<DASH, SP, "a", NL, DASH, SP, "b", NL, NL, "1", DOT, SP, "c">>,
           <<NL, NL>>),
     Block("md", <<HASH, HASH, SP, "note", NL, NL, DASH, DASH, DASH>>, <<NL, NL>>),
     Block("md", <<AlignComment["center"], LBR, "more", RBR, LPAR, HostOther, RPAR>>,
           <<NL, NL>>),
     Block("md", <<BANG, LBR, "note", RBR, LPAR>> \o MkUrl(HpDl, QNone).text
                     \o <<RPAR>>, <<NL, NL>>)}

MdBroken ==
    {Block("broken", Fence \o <<"js", NL, "code">>, <<NL>>),
     Block("broken", <<STAR, STAR, "note", BT, LBR, "a", RBR, LPAR>>, <<NL>>),
     Block("broken", <<PIPE, SP, "a", SP, PIPE, NL, PIPE, PIPE>>, <<NL>>)}

HtmlBlocks ==
    HtmlImages \cup HtmlCallouts \cup HtmlTables \cup HtmlOpaque \cup HtmlCodes
        \cup HtmlNodes
        \cup HtmlBroken
MdBlocks == MdCallouts \cup MdLines \cup MdNodes \cup MdBroken

\* bound: the blocks of one text
MaxBlocks == 2

\* the text that the blocks d make up
RECURSIVE RenderBlocks(_)
RenderBlocks(d) ==
    IF d = <<>> THEN <<>> ELSE d[1].text \o d[1].sep \o RenderBlocks(Tail(d))

(***************************************************************************)
(* The calls of the codec.  The text is given at the start; every call is  *)
(* made on it or on what an earlier call returned.                         *)
(***************************************************************************)
InitCodec ==
    /\ Idle /\ NoSync /\ NoMore
    /\ doc \in SeqsUpTo(HtmlBlocks, MaxBlocks) \cup SeqsUpTo(MdBlocks, MaxBlocks)
    /\ origDoc = <<>>
    /\ html = RenderBlocks(doc)
    /\ originalHtml = <<>>

\* htmlToMarkdown(html)
HtmlToMarkdown ==
    /\ last = "none"
    /\ ret' = htmlToMarkdown(html)
    /\ last' = "decode" /\ from' = "input"
    /\ UNCHANGED <<html, originalHtml, signedUrls, pc, doc, origDoc, stale,
                 syncVars, moreVars>>

\* markdownToHtml(html), the text given taken for Markdown
MarkdownToHtml ==
    /\ last = "none"
    /\ ret' = markdownToHtml(html, <<>>)
    /\ last' = "encode" /\ from' = "input"
    /\ UNCHANGED <<html, originalHtml, signedUrls, pc, doc, origDoc, stale,
                 syncVars, moreVars>>

\* markdownToHtml(htmlToMarkdown(h), h)
EncodeDecoded ==
    /\ last = "decode" /\ from = "input" /\ ret # Thrown
    /\ html' = ret /\ originalHtml' = html
    /\ ret' = markdownToHtml(ret, html)
    /\ signedUrls' = IF html # <<>> THEN IndexScan(NewMap(signedUrls), html, 1)
                     ELSE signedUrls
    /\ last' = "encode" /\ from' = "decode"
    /\ UNCHANGED <<pc, doc, origDoc, stale, syncVars, moreVars>>

\* markdownToHtml(htmlToMarkdown(h))
EncodeDecodedBare ==
    /\ last = "decode" /\ from = "input" /\ ret # Thrown
    /\ html' = ret
    /\ ret' = markdownToHtml(ret, <<>>)
    /\ last' = "encode" /\ from' = "decodeBare"
    /\ UNCHANGED <<originalHtml, signedUrls, pc, doc, origDoc, stale, syncVars, moreVars>>

\* htmlToMarkdown(markdownToHtml(m))
DecodeEncoded ==
    /\ last = "encode" /\ from = "input" /\ ret # Thrown
    /\ html' = ret
    /\ ret' = htmlToMarkdown(ret)
    /\ last' = "decode" /\ from' = "encode"
    /\ UNCHANGED <<originalHtml, signedUrls, pc, doc, origDoc, stale, syncVars, moreVars>>

NextCodec ==
    \/ HtmlToMarkdown
    \/ MarkdownToHtml
    \/ EncodeDecoded
    \/ EncodeDecodedBare
    \/ DecodeEncoded

SpecCodec == InitCodec /\ [][NextCodec]_vars


(***************************************************************************)
(* Images with an alt attribute, given to the codec                        *)
(***************************************************************************)
\* <img src="SRC" alt="ALT">, or the alt attribute before the src
ImgAlt(src, alt, altFirst) ==
    IF altFirst THEN <<IMG, ALT>> \o alt \o <<QUOTE, SRC>> \o src \o <<QUOTE, GT>>
    ELSE <<IMG, SRC>> \o src \o <<QUOTE, ALT>> \o alt \o <<QUOTE, GT>>

\* an img tag with an alt attribute in an aligned container, in a plain
\* container, or bare
HtmlAltImage(container, alt, altFirst) ==
    [Block("html-alt-image",
           (IF container = "center" THEN <<DivImgCenter>>
            ELSE IF container = "plain" THEN <<DivImg>> ELSE <<>>)
               \o ImgAlt(HpOther.text, alt, altFirst)
               \o (IF container = "bare" THEN <<>> ELSE <<DivClose>>), <<>>)
        EXCEPT !.url = MkUrl(HpOther, QNone), !.body = alt, !.color = container]

HtmlAltImages ==
    {HtmlAltImage(c, <<"logo">>, f) : c \in {"center", "plain", "bare"}, f \in BOOLEAN}
        \cup {HtmlAltImage("plain", <<"team", SP, "photo">>, FALSE)}

\* ![ALT](SRC), after the alignment comment or without it
MdAltImage(align, alt) ==
    [Block("md-alt-image",
           (IF align = "" THEN <<>> ELSE <<AlignComment[align]>>)
               \o <<BANG, LBR>> \o alt \o <<RBR, LPAR>> \o HpOther.text \o <<RPAR>>,
           <<NL, NL>>)
        EXCEPT !.url = MkUrl(HpOther, QNone), !.body = alt, !.color = align]

MdAltImages ==
    {MdAltImage(a, alt) : a \in {"", "center"}, alt \in {<<"logo">>, <<"team", SP, "photo">>}}

InitImages ==
    /\ Idle /\ NoSync /\ NoMore
    /\ doc \in SeqsUpTo(HtmlAltImages, MaxBlocks) \cup SeqsUpTo(MdAltImages, MaxBlocks)
    /\ origDoc = <<>>
    /\ html = RenderBlocks(doc)
    /\ originalHtml = <<>>

SpecImages == InitImages /\ [][NextCodec]_vars

(***************************************************************************)
(* Fenced blocks given to markdownToHtml: code blocks whose body has more  *)
(* than one line or lines that look like Markdown, and callouts            *)
(***************************************************************************)
\* a fence with the language tag lang around body, and the blank line after
MdCode(lang, body) ==
    [Block("md-code", Fence \o lang \o <<NL>> \o body \o <<NL>> \o Fence, <<NL, NL>>)
        EXCEPT !.body = body]

MdCodes ==
    {MdCode(<<"js">>, <<"code">>),
     MdCode(<<>>, <<LT, "b", GT>>),
     MdCode(<<"js">>, <<"code", NL, "more">>),
     MdCode(<<>>, <<"code", NL, HASH, SP, "more">>),
     MdCode(<<>>, <<DASH, SP, "a", NL, DASH, SP, "b">>),
     MdCode(<<"js">>, <<STAR, STAR, "bold", STAR, STAR>>),
     MdCode(<<>>, <<LBR, "a", RBR, LPAR, "b", RPAR>>)}

MdPlainCallouts ==
    {MdCallout("blue", <<"note">>), MdCallout("blue", <<"note", NL, "more">>)}

InitFences ==
    /\ Idle /\ NoSync /\ NoMore
    /\ doc \in SeqsUpTo(MdCodes \cup MdPlainCallouts, MaxBlocks)
    /\ origDoc = <<>>
    /\ html = RenderBlocks(doc)
    /\ originalHtml = <<>>

SpecFences == InitFences /\ [][NextCodec]_vars

(***************************************************************************)
(* The push of local files: SyncToIntercom (dryRun, syncFile,              *)
(* prepareArticles, syncArticleGroup, findDefaultArticle) and the push     *)
(* command of the CLI.  A local file is its front matter: intercom_id,     *)
(* locale and the paths of its translations.  An await is a step: each     *)
(* call of IntercomClient and each writeArticle is an action of its own,   *)
(* and it succeeds or throws.                                              *)
(***************************************************************************)
Paths == {"ja.md", "en.md"}

\* the id of an article the front matter may name before the push
KnownId == 1

\* bound: the files given to one push command
MaxFiles == 2

\* a path without a file
NoFile == [present |-> FALSE, intercom_id |-> NoId, locale |-> "", translations |-> <<>>]

\* the front matters a file at path may hold: an id or none, the other path
\* as its translation or none
FilesAt(path) ==
    {[present |-> TRUE, intercom_id |-> id,
      locale |-> IF path = "ja.md" THEN "ja" ELSE "en",
      translations |-> tr] :
        id \in {NoId, KnownId},
        tr \in {<<>>, <<CHOOSE other \in Paths : other # path>>}}

\* readArticle(filePath), which throws when the file cannot be read
Readable(d, filePath) == d[filePath].present

ReadArticle(d, filePath) ==
    [filePath |-> filePath, intercom_id |-> d[filePath].intercom_id,
     locale |-> d[filePath].locale, translations |-> d[filePath].translations]

\* prepareArticles(filePath): the article of the file, then those of its
\* translations that can be read
PrepareArticles(d, filePath) ==
    <<ReadArticle(d, filePath)>>
        \o [k \in 1..Len(SelectSeq(d[filePath].translations,
                                   LAMBDA tp : Readable(d, tp))) |->
               ReadArticle(d, SelectSeq(d[filePath].translations,
                                        LAMBDA tp : Readable(d, tp))[k])]

\* a choice that looks at the order of the articles alone
findFirstArticle(as, cfg) == as[1]

\* findDefaultArticle(articles)
findDefaultArticle(as, cfg) ==
    LET withTranslations == {k \in DOMAIN as : as[k].translations # <<>>}
        byConfigLocale == {k \in DOMAIN as : as[k].locale = cfg.defaultLocale}
    IN  IF withTranslations # {} THEN as[Least(withTranslations)]
        ELSE IF cfg.defaultLocale # NoLocale /\ byConfigLocale # {}
        THEN as[Least(byConfigLocale)]
        ELSE as[1]

\* the id the remote gives a new article
NewId(ids) == Greatest(ids \cup {KnownId}) + 1

\* whether a request for article id can succeed: it can fail always, and
\* fails when the remote holds no such article
Outcomes(ids, id) == IF id \in ids THEN BOOLEAN ELSE {FALSE}

\* a command that pushes whatever its options say
PushesAlways(opts) == TRUE

\* if (!options.dryRun) of the push command
Pushes(opts) == ~opts.dryRun

\* a write that leaves the file as it was
WriteArticleNowhere(d, article) == d

\* writeArticle(article.filePath, article.frontMatter, article.content)
WriteArticle(d, article) ==
    [d EXCEPT ![article.filePath] =
        [present |-> TRUE, intercom_id |-> article.intercom_id,
         locale |-> article.locale, translations |-> article.translations]]

\* the catch of syncFile
Failed(r) == [r EXCEPT !.success = FALSE, !.errors = @ + 1]

NoText ==
    /\ Idle /\ doc = <<>> /\ origDoc = <<>> /\ html = <<>> /\ originalHtml = <<>>

InitSync ==
    /\ NoText /\ NoMore
    /\ config \in {[defaultLocale |-> l] : l \in {NoLocale, "en"}}
    /\ options \in {[dryRun |-> b] : b \in BOOLEAN}
    /\ queue \in SeqsUpTo(Paths, MaxFiles) \ {<<>>}
    /\ step = "push"
    /\ disk \in {d \in [Paths -> FilesAt("ja.md") \cup FilesAt("en.md") \cup {NoFile}] :
                    /\ d["ja.md"] \in FilesAt("ja.md")
                    /\ d["en.md"] \in FilesAt("en.md") \cup {NoFile}}
    /\ remote \in {{}, {KnownId}}
    /\ calls = <<>> /\ writes = <<>> /\ syncResult = NewResult
    /\ totals = [created |-> 0, updated |-> 0, errors |-> 0]
    /\ articles = <<>> /\ intercomId = NoId /\ created = NoId /\ written = 0
    /\ entered = [calls |-> 0, writes |-> 0]

\* the push command takes its next file and calls dryRun, which prepares the
\* articles; when the file cannot be read the command notes the error
PushDryRun ==
    /\ step = "push" /\ queue # <<>>
    /\ entered' = [calls |-> Len(calls), writes |-> Len(writes)]
    /\ IF Readable(disk, Head(queue))
       THEN /\ articles' = PrepareArticles(disk, Head(queue))
            /\ intercomId' = findDefaultArticle(articles', config).intercom_id
            /\ step' = IF intercomId' # NoId THEN "dryRun.get" ELSE "dryRun.done"
            /\ UNCHANGED <<queue, totals>>
       ELSE /\ totals' = [totals EXCEPT !.errors = @ + 1]
            /\ queue' = Tail(queue)
            /\ UNCHANGED <<articles, intercomId, step>>
    /\ UNCHANGED <<config, options, disk, remote, calls, writes, syncResult,
                   created, written, codecVars, moreVars>>

\* dryRun: this.client.getArticle(intercomId), in a try
DryRunGetArticle ==
    /\ step = "dryRun.get"
    /\ \E ok \in Outcomes(remote, intercomId) :
           calls' = Append(calls, [op |-> "getArticle", id |-> intercomId, ok |-> ok])
    /\ step' = "dryRun.done"
    /\ UNCHANGED <<config, options, queue, disk, remote, writes, syncResult, totals,
                   articles, intercomId, created, written, entered, codecVars, moreVars>>

\* dryRun returns; the command shows the difference and goes on to syncFile
\* unless the run is dry
DryRunReturn ==
    /\ step = "dryRun.done"
    /\ IF Pushes(options)
       THEN step' = "syncFile" /\ UNCHANGED queue
       ELSE step' = "push" /\ queue' = Tail(queue)
    /\ UNCHANGED <<config, options, disk, remote, calls, writes, syncResult, totals,
                   articles, intercomId, created, written, entered, codecVars, moreVars>>

\* syncFile(filePath): a fresh result, the articles, and syncArticleGroup on
\* the id of the first of them, up to its first request
SyncFile ==
    /\ step = "syncFile"
    /\ syncResult' = NewResult
    /\ entered' = [calls |-> Len(calls), writes |-> Len(writes)]
    /\ articles' = PrepareArticles(disk, Head(queue))
    /\ intercomId' = articles'[1].intercom_id
    /\ created' = NoId /\ written' = 0
    /\ step' = IF intercomId' # NoId THEN "sync.get" ELSE "sync.send"
    /\ UNCHANGED <<config, options, queue, disk, remote, calls, writes, totals,
                   codecVars, moreVars>>

\* syncArticleGroup: this.client.getArticle(intercomId), in a try
SyncGetArticle ==
    /\ step = "sync.get"
    /\ \E ok \in Outcomes(remote, intercomId) :
           calls' = Append(calls, [op |-> "getArticle", id |-> intercomId, ok |-> ok])
    /\ step' = "sync.send"
    /\ UNCHANGED <<config, options, queue, disk, remote, writes, syncResult, totals,
                   articles, intercomId, created, written, entered, codecVars, moreVars>>

\* syncArticleGroup: this.client.updateArticle(intercomId, articleData)
SyncUpdateArticle ==
    /\ step = "sync.send" /\ intercomId # NoId
    /\ \E ok \in Outcomes(remote, intercomId) :
           /\ calls' = Append(calls, [op |-> "updateArticle", id |-> intercomId,
                                      ok |-> ok])
           /\ syncResult' = IF ok THEN [syncResult EXCEPT !.updated = @ + 1]
                            ELSE Failed(syncResult)
    /\ step' = "sync.done"
    /\ UNCHANGED <<config, options, queue, disk, remote, writes, totals, articles,
                   intercomId, created, written, entered, codecVars, moreVars>>

\* syncArticleGroup: this.client.createArticle(articleData)
SyncCreateArticle ==
    /\ step = "sync.send" /\ intercomId = NoId
    /\ \E ok \in BOOLEAN :
           IF ok
           THEN /\ calls' = Append(calls, [op |-> "createArticle",
                                           id |-> NewId(remote), ok |-> TRUE])
                /\ remote' = remote \cup {NewId(remote)}
                /\ created' = NewId(remote)
                /\ step' = "sync.write"
                /\ UNCHANGED syncResult
           ELSE /\ calls' = Append(calls, [op |-> "createArticle", id |-> NoId,
                                           ok |-> FALSE])
                /\ syncResult' = Failed(syncResult)
                /\ step' = "sync.done"
                /\ UNCHANGED <<remote, created>>
    /\ UNCHANGED <<config, options, queue, disk, writes, totals, articles,
                   intercomId, written, entered, codecVars, moreVars>>

\* syncArticleGroup: the loop of 299-307 for one article: the id is set in
\* its front matter and the file is written; after the last, result.created++
SyncWriteArticle ==
    /\ step = "sync.write"
    /\ articles' = [articles EXCEPT ![written + 1].intercom_id = created]
    /\ \E ok \in BOOLEAN :
           IF ok
           THEN /\ disk' = WriteArticle(disk, articles'[written + 1])
                /\ writes' = Append(writes, [filePath |-> articles[written + 1].filePath,
                                             intercom_id |-> created])
                /\ written' = written + 1
                /\ IF written' = Len(articles)
                   THEN /\ syncResult' = [syncResult EXCEPT !.created = @ + 1]
                        /\ step' = "sync.done"
                   ELSE UNCHANGED <<syncResult, step>>
           ELSE /\ syncResult' = Failed(syncResult)
                /\ step' = "sync.done"
                /\ UNCHANGED <<disk, writes, written>>
    /\ UNCHANGED <<config, options, queue, remote, calls, totals, intercomId,
                   created, entered, codecVars, moreVars>>

\* syncFile returns its result; the command adds it to its totals and goes
\* on with the next file
SyncFileReturn ==
    /\ step = "sync.done"
    /\ totals' = [created |-> totals.created + syncResult.created,
                  updated |-> totals.updated + syncResult.updated,
                  errors |-> totals.errors + syncResult.errors]
    /\ queue' = Tail(queue)
    /\ step' = "push"
    /\ UNCHANGED <<config, options, disk, remote, calls, writes, syncResult,
                   articles, intercomId, created, written, entered, codecVars, moreVars>>

NextSync ==
    \/ PushDryRun
    \/ DryRunGetArticle
    \/ DryRunReturn
    \/ SyncFile
    \/ SyncGetArticle
    \/ SyncUpdateArticle
    \/ SyncCreateArticle
    \/ SyncWriteArticle
    \/ SyncFileReturn

SpecSync == InitSync /\ [][NextSync]_vars

(***************************************************************************)
(* SyncToIntercom.syncAll: the files of articlesDir are read and grouped   *)
(* by intercom_id, and syncArticleGroup is called on every group.  The     *)
(* content of a file is named by its path.                                 *)
(***************************************************************************)
FileNames == <<"a.md", "b.md", "c.md", "d.md">>

\* bound: the files getAllMarkdownFiles lists
MaxListed == 2

\* a fresh SyncResult, its errors a list (part_000:56-62)
EmptyResult == [success |-> TRUE, created |-> 0, updated |-> 0, errors |-> <<>>]

\* what a listed file may hold: nothing that parses, or a front matter
ListedFiles ==
    {NoFile} \cup
    {[present |-> TRUE, intercom_id |-> id, locale |-> l, translations |-> tr] :
        id \in {NoId, KnownId}, l \in {"ja", "en"}, tr \in {<<>>, <<"t.md">>}}

\* articleGroups.get(id)!.push(article), after articleGroups.set(id, [])
\* when the Map has no such key: a Map keeps its keys in insertion order
GroupPush(gs, article) ==
    IF \E k \in DOMAIN gs : gs[k].id = article.intercom_id
    THEN [k \in DOMAIN gs |->
             IF gs[k].id = article.intercom_id
             THEN [gs[k] EXCEPT !.articles = Append(@, article)]
             ELSE gs[k]]
    ELSE Append(gs, [id |-> article.intercom_id, articles |-> <<article>>])

\* translatedContent of syncArticleGroup: for every locale but that of the
\* default article, the content assigned to translatedContent[locale] last
TranslatedContent(as, defaultArticle) ==
    [l \in {as[k].locale : k \in {j \in DOMAIN as : as[j].locale # defaultArticle.locale}} |->
        as[Greatest({k \in DOMAIN as : as[k].locale = l})].filePath]

\* articleData: the body of the default article and the translated content
ArticleData(as, cfg) ==
    [body |-> findDefaultArticle(as, cfg).filePath,
     translated_content |-> TranslatedContent(as, findDefaultArticle(as, cfg))]

\* the loop of part_000:299-307 for the first n articles of the group
RECURSIVE WriteArticles(_, _, _, _)
WriteArticles(d, as, id, n) ==
    IF n = 0 THEN d
    ELSE WriteArticle(WriteArticles(d, as, id, n - 1),
                      [as[n] EXCEPT !.intercom_id = id])

\* a catch that also gives up the success of the whole run
PushErrorFailing(r, e) == [r EXCEPT !.errors = Append(@, e), !.success = FALSE]

\* result.errors.push(...)
PushError(r, e) == [r EXCEPT !.errors = Append(@, e)]

\* the catch of the outer try: result.success = false and the error
Aborted(r) == [PushError(r, [kind |-> "syncAll"]) EXCEPT !.success = FALSE]

InitPushAll ==
    /\ NoText
    /\ config \in {[defaultLocale |-> l] : l \in {NoLocale, "en"}}
    /\ options = [dryRun |-> FALSE]
    /\ \E n \in 0..MaxListed :
           /\ queue = SubSeq(FileNames, 1, n)
           /\ disk \in [{FileNames[k] : k \in 1..n} -> ListedFiles]
    /\ remote \in {{}, {KnownId}}
    /\ step = "all.list"
    /\ calls = <<>> /\ writes = <<>> /\ syncResult = EmptyResult
    /\ totals = [created |-> 0, updated |-> 0, errors |-> 0]
    /\ articles = <<>> /\ intercomId = NoId /\ created = NoId /\ written = 0
    /\ entered = [calls |-> 0, writes |-> 0]
    /\ groups = <<>> /\ done = 0 /\ NoPages /\ NoPull /\ NoInit

\* syncAll: getAllMarkdownFiles(this.config.articlesDir), which lists the
\* files or throws into the outer catch
PushAllList ==
    /\ step = "all.list"
    /\ \E ok \in BOOLEAN :
           IF ok THEN step' = "all.read" /\ UNCHANGED syncResult
           ELSE step' = "all.done" /\ syncResult' = Aborted(syncResult)
    /\ UNCHANGED <<config, options, queue, disk, remote, calls, writes, totals,
                   articles, intercomId, created, written, entered, groups, done,
                   codecVars, restVars>>

\* syncAll: the loop of 70-85 for one file
PushAllRead ==
    /\ step = "all.read" /\ queue # <<>>
    /\ IF Readable(disk, Head(queue))
       THEN /\ groups' = GroupPush(groups, ReadArticle(disk, Head(queue)))
            /\ UNCHANGED syncResult
       ELSE /\ syncResult' = PushError(syncResult, [file |-> Head(queue)])
            /\ UNCHANGED groups
    /\ queue' = Tail(queue)
    /\ UNCHANGED <<config, options, step, disk, remote, calls, writes, totals,
                   articles, intercomId, created, written, entered, done,
                   codecVars, restVars>>

\* syncAll: the loop of 88-97 for one group, with syncArticleGroup: the
\* getArticle in its try, then updateArticle, or createArticle and the
\* writes; whatever throws is caught at 91 and noted
PushAllGroup ==
    /\ step = "all.read" /\ queue = <<>> /\ done < Len(groups)
    /\ done' = done + 1
    /\ articles' = groups[done'].articles
    /\ intercomId' = groups[done'].id
    /\ entered' = [calls |-> Len(calls), writes |-> Len(writes)]
    /\ IF intercomId' # NoId
       THEN \E got \in Outcomes(remote, intercomId'), ok \in Outcomes(remote, intercomId') :
               /\ calls' = calls \o
                      <<[op |-> "getArticle", id |-> intercomId', ok |-> got],
                        [op |-> "updateArticle", id |-> intercomId', ok |-> ok,
                         data |-> ArticleData(articles', config)]>>
               /\ syncResult' =
                      IF ok THEN [syncResult EXCEPT !.updated = @ + 1]
                      ELSE PushError(syncResult, [articleId |-> intercomId'])
               /\ UNCHANGED <<remote, disk, writes, created>>
       ELSE \E ok \in BOOLEAN, n \in 0..Len(articles') :
               IF ok
               THEN /\ calls' = Append(calls,
                          [op |-> "createArticle", id |-> NewId(remote), ok |-> TRUE,
                           data |-> ArticleData(articles', config)])
                    /\ remote' = remote \cup {NewId(remote)}
                    /\ created' = NewId(remote)
                    /\ disk' = WriteArticles(disk, articles', created', n)
                    /\ writes' = writes \o
                           [k \in 1..n |-> [filePath |-> articles'[k].filePath,
                                            intercom_id |-> created']]
                    /\ syncResult' =
                           IF n = Len(articles')
                           THEN [syncResult EXCEPT !.created = @ + 1]
                           ELSE PushError(syncResult, [articleId |-> NoId])
               ELSE /\ n = 0
                    /\ calls' = Append(calls,
                          [op |-> "createArticle", id |-> NoId, ok |-> FALSE,
                           data |-> ArticleData(articles', config)])
                    /\ syncResult' = PushError(syncResult, [articleId |-> NoId])
                    /\ UNCHANGED <<remote, disk, writes, created>>
    /\ UNCHANGED <<config, options, queue, step, totals, written, groups, codecVars, restVars>>

\* syncAll returns its result
PushAllReturn ==
    /\ step = "all.read" /\ queue = <<>> /\ done = Len(groups)
    /\ step' = "all.done"
    /\ UNCHANGED <<config, options, queue, disk, remote, calls, writes, syncResult,
                   totals, articles, intercomId, created, written, entered, groups, done,
                   codecVars, restVars>>

NextPushAll ==
    \/ PushAllList
    \/ PushAllRead
    \/ PushAllGroup
    \/ PushAllReturn

SpecPushAll == InitPushAll /\ [][NextPushAll]_vars

(***************************************************************************)
(* IntercomClient.getAllArticles and getAllCollections: the loop that      *)
(* fetches page after page.  The server answers the k-th request with the  *)
(* items of the page asked for and with a total_pages of its own choice.   *)
(***************************************************************************)
\* bound: the greatest total_pages a response carries
MaxPages == 3

Endpoints == {"/articles", "/help_center/collections"}

\* response.data.data for a page: the items the server holds for it
PageData(ep, p) == <<[of |-> ep, page |-> p]>>

InitPages ==
    /\ NoText /\ NoSync /\ groups = <<>> /\ done = 0 /\ NoPull /\ NoInit
    /\ endpoint \in Endpoints
    /\ page = 1 /\ hasMore = TRUE /\ collected = <<>> /\ requests = <<>>
    /\ server \in [1..MaxPages -> 0..MaxPages]
    /\ returned = <<>>

\* a test that lets the loop go on after the last page
HasMoreInclusive(p, totalPages) == p <= totalPages

\* hasMore = page < response.data.pages.total_pages
HasMore(p, totalPages) == p < totalPages

\* one turn of while (hasMore): the request, which resolves or rejects,
\* the push of its items, hasMore and page++
FetchPage ==
    /\ endpoint \in Endpoints /\ returned = <<>> /\ hasMore
    /\ requests' = Append(requests, [path |-> endpoint, page |-> page])
    /\ \E ok \in BOOLEAN :
           IF ok
           THEN /\ collected' = collected \o PageData(endpoint, page)
                /\ hasMore' = HasMore(page, server[Len(requests')])
                /\ page' = page + 1
                /\ UNCHANGED returned
           ELSE /\ returned' = Thrown
                /\ UNCHANGED <<collected, hasMore, page>>
    /\ UNCHANGED <<endpoint, server, notPageVars>>

\* return articles; return collections
ReturnItems ==
    /\ endpoint \in Endpoints /\ returned = <<>> /\ ~hasMore
    /\ returned' = <<collected>>
    /\ UNCHANGED <<endpoint, page, hasMore, collected, requests, server, notPageVars>>

NextPages ==
    \/ FetchPage
    \/ ReturnItems

SpecPages == InitPages /\ [][NextPages]_vars

\* the call goes on as long as it can: it is not abandoned
FairPages == SpecPages /\ WF_vars(NextPages)

(***************************************************************************)
(* SyncFromIntercom: syncAll, syncArticle and syncArticleLocale, with      *)
(* generateFilePath of markdown.ts and findArticleByIntercomId,            *)
(* writeArticle and deleteArticle of file-manager.ts.  A title and a path  *)
(* are texts, a path is relative to articlesDir.  The body of an article   *)
(* is kept only as empty or not.                                           *)
(***************************************************************************)
SLASH == "/"

\* bound: the articles getAllArticles returns
MaxArticles == 2
\* bound: the calls of syncAll, one after the other
MaxPulls == 2

\* the text of an article id
IdText == <<"1", "2", "3">>

\* String.prototype.toLowerCase
toLowerCase(s) == [k \in DOMAIN s |-> IF s[k] = "Guide" THEN "guide" ELSE s[k]]

\* s.replace(/\s+/g, '-')
RECURSIVE SpacesToHyphen(_)
SpacesToHyphen(s) ==
    IF s = <<>> THEN <<>>
    ELSE IF s[1] \in Whitespace
    THEN <<DASH>> \o SpacesToHyphen(Tail2(s, FirstNotIn(s, 1, Whitespace)))
    ELSE <<s[1]>> \o SpacesToHyphen(Tail(s))

\* [\/\\:*?"<>|] of generateFilePath, as far as a title of the model goes
Unusable == {SLASH, QM, QUOTE, PIPE}

\* s.replace(/-+/g, '-')
RECURSIVE CollapseHyphens(_)
CollapseHyphens(s) ==
    IF s = <<>> THEN <<>>
    ELSE IF s[1] = DASH
    THEN <<DASH>> \o CollapseHyphens(Tail2(s, FirstNotIn(s, 1, {DASH})))
    ELSE <<s[1]>> \o CollapseHyphens(Tail(s))

\* s.replace(/^-|-$/g, '')
StripHyphens(s) ==
    IF s = <<>> THEN s
    ELSE IF s[1] = DASH
    THEN IF Len(s) > 1 /\ s[Len(s)] = DASH THEN SubSeq(s, 2, Len(s) - 1) ELSE Tail(s)
    ELSE IF s[Len(s)] = DASH THEN SubSeq(s, 1, Len(s) - 1) ELSE s

\* sanitizedSlug of generateFilePath
SanitizedSlug(slug) ==
    StripHyphens(CollapseHyphens(SpacesToHyphen(
        [k \in DOMAIN slug |-> IF slug[k] \in Unusable THEN DASH ELSE slug[k]])))

\* generateFilePath(locale, collectionId, slug)
generateFilePath(locale, collectionId, slug) ==
    <<locale, SLASH, collectionId, SLASH>> \o SanitizedSlug(slug) \o <<".md">>

\* slug of syncArticleLocale (171-173)
Slug(title, id) ==
    IF title # <<>> THEN SpacesToHyphen(title) ELSE <<"article-", IdText[id]>>

\* translationSlug of syncArticleLocale (205-207)
TranslationSlug(title, id) ==
    IF title # <<>> THEN SpacesToHyphen(toLowerCase(title))
    ELSE <<"article-", IdText[id]>>

\* collectionName of syncArticleLocale (166-169), the collection map loaded
NoParent == "none"
CollectionName(parent_id) ==
    IF parent_id = NoParent THEN "uncategorized" ELSE "faq"

\* the titles an article or a translation may have
Titles == {<<>>, <<"guide">>, <<"Guide", SP, QM>>}

\* the translated_content an article may have: none, or its entries in the
\* order of Object.entries; a translation not yet started has neither title
\* nor body
Translation(l, t, b) == [locale |-> l, title |-> t, body |-> b]
Content(entries) == [defined |-> TRUE, entries |-> entries]
NoContent == [defined |-> FALSE, entries |-> <<>>]
TranslatedContents ==
    {NoContent}
    \cup {Content(<<Translation("en", t, <<"body">>)>>) : t \in Titles}
    \cup {Content(<<Translation("en", <<>>, <<>>)>>),
          Content(<<Translation("en", <<"Guide", SP, QM>>, <<"body">>),
                    Translation("fr", <<"guide">>, <<"body">>)>>)}

\* the articles of that id the remote may hold
RemoteArticles(id) ==
    {[id |-> id, default_locale |-> "ja", title |-> t,
      parent_id |-> IF id = 1 THEN NoParent ELSE "9",
      translated_content |-> tc] : t \in Titles, tc \in TranslatedContents}

\* !this.config.supportedLocales || this.config.supportedLocales.includes(locale)
Supported(locales, locale) ==
    locales = NoLocales \/ \E k \in DOMAIN locales : locales[k] = locale

\* the entries of translated_content that syncArticle and the translations
\* map take: those that are started and supported
Taken(a, locales) ==
    IF ~a.translated_content.defined THEN <<>>
    ELSE SelectSeq(a.translated_content.entries,
                   LAMBDA tr : /\ ~(tr.title = <<>> /\ tr.body = <<>>)
                               /\ Supported(locales, tr.locale))

\* frontMatter.translations of syncArticleLocale (193-215), as the set of
\* its entries: none when the front matter has no such map
TranslationsMap(a, locale, locales) ==
    IF locale = a.default_locale /\ a.translated_content.defined
    THEN {[locale |-> Taken(a, locales)[k].locale,
           path |-> generateFilePath(Taken(a, locales)[k].locale,
                                     CollectionName(a.parent_id),
                                     TranslationSlug(Taken(a, locales)[k].title, a.id))] :
             k \in DOMAIN Taken(a, locales)}
    ELSE {}

\* findArticleByIntercomId: the files of that id; the first of them in the
\* order of the directory is returned
NoPath == <<>>
FilesOfId(dir, id) == {p \in DOMAIN dir : dir[p].intercom_id = id}

\* if (existingFile && existingFile !== filePath)
DeletesOldFile(existingFile, filePath) ==
    existingFile # NoPath /\ existingFile # filePath

\* deleteArticle(filePath): fs.unlink
Unlink(dir, filePath) == [p \in DOMAIN dir \ {filePath} |-> dir[p]]

\* writeArticle(filePath, frontMatter, markdownBody)
WriteFile(dir, filePath, frontMatter) ==
    [p \in DOMAIN dir \cup {filePath} |->
        IF p = filePath THEN frontMatter ELSE dir[p]]

\* what syncArticleLocale is called with for one locale of article a
LocaleTitle(a, locale) ==
    IF locale = a.default_locale THEN a.title
    ELSE Taken(a, <<locale>>)[1].title

InitPull ==
    /\ NoText /\ NoSync /\ groups = <<>> /\ done = 0 /\ NoPages /\ NoInit
    /\ supportedLocales \in {NoLocales, <<"en">>}
    /\ \E n \in 0..MaxArticles :
           inventory \in {inv \in [1..n -> UNION {RemoteArticles(id) : id \in 1..n}] :
                             \A k \in 1..n : inv[k].id = k}
    /\ articlesDir = <<>>
    /\ remaining = <<>> /\ pulled = NoArticle /\ pending = <<>> /\ synced = <<>>
    /\ pullResult = EmptyResult
    /\ pullStep = "collections" /\ pulls = 1

\* syncAll: await this.loadCollections(), which throws into the outer catch
LoadCollections ==
    /\ pullStep = "collections"
    /\ \E ok \in BOOLEAN :
           IF ok THEN pullStep' = "list" /\ UNCHANGED pullResult
           ELSE pullStep' = "returned" /\ pullResult' = Aborted(pullResult)
    /\ UNCHANGED <<supportedLocales, inventory, articlesDir, remaining, pulled,
                   pending, synced, pulls, notPullVars>>

\* syncAll: await this.client.getAllArticles()
ListArticles ==
    /\ pullStep = "list"
    /\ \E ok \in BOOLEAN :
           IF ok THEN /\ pullStep' = "articles" /\ remaining' = inventory
                      /\ UNCHANGED pullResult
           ELSE /\ pullStep' = "returned" /\ pullResult' = Aborted(pullResult)
                /\ UNCHANGED remaining
    /\ UNCHANGED <<supportedLocales, inventory, articlesDir, pulled, pending,
                   synced, pulls, notPullVars>>

\* syncAll: the loop takes its next article and calls syncArticle, which
\* will sync the default locale and then the translations taken
SyncArticle ==
    /\ pullStep = "articles" /\ remaining # <<>>
    /\ pulled' = Head(remaining)
    /\ remaining' = Tail(remaining)
    /\ pending' = <<pulled'.default_locale>>
                      \o [k \in DOMAIN Taken(pulled', supportedLocales) |->
                             Taken(pulled', supportedLocales)[k].locale]
    /\ synced' = <<>>
    /\ pullStep' = "locale"
    /\ UNCHANGED <<supportedLocales, inventory, articlesDir, pullResult, pulls,
                   notPullVars>>

\* syncArticleLocale for the next locale of the article: the file of the id
\* is looked up, the path is made, the old file is unlinked when it is at
\* another path, the file is written and the result counts it; unlink and
\* write can throw, into the catch of the loop of syncAll
SyncArticleLocale ==
    /\ pullStep = "locale" /\ pending # <<>>
    /\ \E existingFile \in IF FilesOfId(articlesDir, pulled.id) = {} THEN {NoPath}
                           ELSE FilesOfId(articlesDir, pulled.id),
          unlinked \in BOOLEAN, wrote \in BOOLEAN :
        LET locale == Head(pending)
            title == LocaleTitle(pulled, locale)
            filePath == generateFilePath(locale, CollectionName(pulled.parent_id),
                                         Slug(title, pulled.id))
            frontMatter == [intercom_id |-> pulled.id, locale |-> locale,
                            title |-> title,
                            translations |->
                                TranslationsMap(pulled, locale, supportedLocales)]
            deletes == DeletesOldFile(existingFile, filePath)
            afterUnlink == IF deletes /\ unlinked
                           THEN Unlink(articlesDir, existingFile) ELSE articlesDir
        IN  /\ ~deletes => unlinked
            /\ ~unlinked => ~wrote
            /\ IF wrote
               THEN /\ articlesDir' = WriteFile(afterUnlink, filePath, frontMatter)
                    /\ synced' = Append(synced, [locale |-> locale, filePath |-> filePath,
                                                 frontMatter |-> frontMatter])
                    /\ pullResult' =
                           IF existingFile # NoPath
                           THEN [pullResult EXCEPT !.updated = @ + 1]
                           ELSE [pullResult EXCEPT !.created = @ + 1]
                    /\ pending' = Tail(pending)
                    /\ pullStep' = IF pending' = <<>> THEN "synced" ELSE "locale"
               ELSE /\ articlesDir' = afterUnlink
                    /\ pullResult' = PushError(pullResult, [articleId |-> pulled.id])
                    /\ pullStep' = "articles"
                    /\ UNCHANGED <<synced, pending>>
    /\ UNCHANGED <<supportedLocales, inventory, remaining, pulled, pulls, notPullVars>>

\* syncArticle returns, without an error, and the loop of syncAll goes on
SyncArticleReturn ==
    /\ pullStep = "synced"
    /\ pullStep' = "articles"
    /\ UNCHANGED <<supportedLocales, inventory, articlesDir, remaining, pulled,
                   pending, synced, pullResult, pulls, notPullVars>>

\* syncAll: return result
PullReturn ==
    /\ pullStep = "articles" /\ remaining = <<>>
    /\ pullStep' = "returned"
    /\ UNCHANGED <<supportedLocales, inventory, articlesDir, remaining, pulled,
                   pending, synced, pullResult, pulls, notPullVars>>

\* the pull command is run again: syncAll is called on the directory the
\* pull before it left
PullAgain ==
    /\ pullStep = "returned" /\ pulls < MaxPulls
    /\ pulls' = pulls + 1
    /\ pullResult' = EmptyResult
    /\ pullStep' = "collections"
    /\ pulled' = NoArticle /\ pending' = <<>> /\ synced' = <<>>
    /\ UNCHANGED <<supportedLocales, inventory, articlesDir, remaining, notPullVars>>

NextPull ==
    \/ LoadCollections
    \/ ListArticles
    \/ SyncArticle
    \/ SyncArticleLocale
    \/ SyncArticleReturn
    \/ PullReturn
    \/ PullAgain

SpecPull == InitPull /\ [][NextPull]_vars

(***************************************************************************)
(* The two syncAll methods side by side: a run is a run of                 *)
(* SyncToIntercom.syncAll or a run of SyncFromIntercom.syncAll.            *)
(***************************************************************************)
InitSyncAll == InitPushAll \/ InitPull

NextSyncAll == NextPushAll \/ NextPull

SpecSyncAll == InitSyncAll /\ [][NextSyncAll]_vars

(***************************************************************************)
(* The init command of the CLI: the directories of the articles and three  *)
(* files of the target directory, each written when it is not there.       *)
(***************************************************************************)
InitFiles == {".intercom-config.json", ".gitignore", "README.md"}
InitDirs == {"articles/ja", "articles/en"}

\* bound: the runs of the init command, one after the other
MaxInits == 2

\* no file at a path; a content the command did not write
Absent == "absent"
OwnContent == "own"

\* configContent, gitignoreContent, readmeContent
InitContent(file) ==
    IF file = ".intercom-config.json" THEN "configContent"
    ELSE IF file = ".gitignore" THEN "gitignoreContent"
    ELSE "readmeContent"

\* a test that finds no file anywhere
FileExistsNowhere(dir, file) == FALSE

\* fileExists(filePath): fs.access resolves
fileExists(dir, file) == dir.files[file] # Absent

InitInit ==
    /\ NoText /\ NoSync /\ groups = <<>> /\ done = 0 /\ NoPages /\ NoPull
    /\ targetDir \in [dirs : SUBSET InitDirs,
                      files : [InitFiles -> {Absent, OwnContent} \cup
                                            {InitContent(f) : f \in InitFiles}]]
    /\ \A f \in InitFiles :
           targetDir.files[f] \in {Absent, OwnContent, InitContent(f)}
    /\ initStep = "dirs" /\ inits = 1
    /\ found = [dir |-> targetDir, ended |-> "none"]

\* ensureDir of articles/ja and of articles/en: mkdir when it is not there;
\* a throw ends the command
EnsureDirs ==
    /\ initStep = "dirs"
    /\ \E ok \in BOOLEAN :
           IF ok \/ InitDirs \subseteq targetDir.dirs
           THEN /\ targetDir' = [targetDir EXCEPT !.dirs = InitDirs]
                /\ initStep' = ".intercom-config.json"
           ELSE /\ \E made \in {ds \in SUBSET InitDirs :
                                   /\ targetDir.dirs \subseteq ds
                                   /\ ds # InitDirs
                                   /\ "articles/en" \in ds => "articles/ja" \in ds} :
                       targetDir' = [targetDir EXCEPT !.dirs = made]
                /\ initStep' = "failed"
    /\ UNCHANGED <<inits, found, notInitVars>>

\* if (!await fileExists(path)) await fs.writeFile(path, content), for the
\* file the command is at; a throw ends the command
CreateFile ==
    /\ initStep \in InitFiles
    /\ \E ok \in BOOLEAN :
           IF fileExists(targetDir, initStep)
           THEN /\ ok /\ UNCHANGED targetDir
                /\ initStep' = IF initStep = ".intercom-config.json" THEN ".gitignore"
                               ELSE IF initStep = ".gitignore" THEN "README.md"
                               ELSE "done"
           ELSE IF ok
           THEN /\ targetDir' = [targetDir EXCEPT !.files[initStep] = InitContent(initStep)]
                /\ initStep' = IF initStep = ".intercom-config.json" THEN ".gitignore"
                               ELSE IF initStep = ".gitignore" THEN "README.md"
                               ELSE "done"
           ELSE /\ initStep' = "failed" /\ UNCHANGED targetDir
    /\ UNCHANGED <<inits, found, notInitVars>>

\* the command is run again on the directory the run before it left
InitAgain ==
    /\ initStep \in {"done", "failed"} /\ inits < MaxInits
    /\ inits' = inits + 1
    /\ found' = [dir |-> targetDir, ended |-> initStep]
    /\ initStep' = "dirs"
    /\ UNCHANGED <<targetDir, notInitVars>>

NextInit ==
    \/ EnsureDirs
    \/ CreateFile
    \/ InitAgain

SpecInit == InitInit /\ [][NextInit]_vars
(***************************************************************************)
(* What the claims about the signature functions speak of                  *)
(***************************************************************************)
\* the occurrences the arguments of the last call stand for
HtmlDoc == IF from = "swapped" THEN origDoc ELSE doc
OrigDoc == IF from = "input" THEN origDoc ELSE doc

\* a text cut after each ">": one piece per image tag
RECURSIVE Chunks(_)
Chunks(t) ==
    IF t = <<>> THEN <<>>
    ELSE LET k == IndexOf(t, {GT})
         IN  <<SubSeq(t, 1, IF k > Len(t) THEN Len(t) ELSE k)>>
                 \o Chunks(Tail2(t, k + 1))

WithQuery(base, q) == base \o (IF q # <<>> THEN <<QM>> \o q ELSE <<>>)

\* the occurrences of d that restoreImageSignatures indexes
Indexed(d) == {j \in 1..Len(d) : d[j].known /\ d[j].ok /\ d[j].query}

\* the last indexed occurrence of d with key k (0: none)
LastWithKey(d, k) ==
    LET hits == {j \in Indexed(d) : d[j].key = k}
    IN  IF hits = {} THEN 0 ELSE CHOOSE j \in hits : \A i \in hits : i <= j

StripReturned == last = "strip" /\ from = "input" /\ Len(Chunks(ret)) = Len(doc)
RestoreReturned == last = "restore" /\ pc = "idle"

\* C1: stripping what stripImageSignatures returned changes nothing.
C1_StripIdempotent ==
    (last = "strip" /\ from = "strip") => ret = html

C1_Witness ==
    /\ last = "strip" /\ from = "strip" /\ ret = html
    /\ html # Render(doc)
    /\ \E i \in 1..Len(doc) : doc[i].known /\ doc[i].ok /\ doc[i].kept # <<>>

\* C2 as stated, for URLs that parse: when every URL of h is of a known host
\* and carries the standard signature, restore(strip(h), h) equals h, also
\* when h repeats an asset with another signature.  (The texts differ in a
\* signature's value, which no reordering of parameters accounts for.)
C2_Original ==
    (RestoreReturned /\ from = "strip"
        /\ \A i \in 1..Len(doc) : doc[i].known /\ doc[i].ok /\ doc[i].std)
    => ret = originalHtml

\* C2 amended: when every URL of h is of a known host, parses and carries the
\* standard signature, restore(strip(h), h) equals h except that every
\* occurrence is given the URL of the last occurrence of h with its key.
C2_RestoreAfterStrip ==
    (RestoreReturned /\ from = "strip"
        /\ \A i \in 1..Len(doc) : doc[i].known /\ doc[i].ok /\ doc[i].std)
    => /\ Len(Chunks(ret)) = Len(doc)
       /\ \A i \in 1..Len(doc) :
              Chunks(ret)[i] = RenderUrl(doc[LastWithKey(doc, doc[i].key)].text)
       /\ (\A i, j \in 1..Len(doc) : doc[i].key = doc[j].key => doc[i] = doc[j])
              => ret = originalHtml

C2_Witness ==
    /\ RestoreReturned /\ from = "strip"
    /\ Len(doc) = 2 /\ doc[1] # doc[2] /\ doc[1].key = doc[2].key
    /\ \A i \in 1..Len(doc) : doc[i].known /\ doc[i].ok /\ doc[i].std
    /\ ret = RenderUrl(doc[2].text) \o RenderUrl(doc[2].text)

\* C3 as stated: every URL of a known host with a query comes out as its base
\* and the parameters other than expires, signature, req; no "?" when none.
C3_Original ==
    StripReturned =>
        \A i \in 1..Len(doc) : (doc[i].known /\ doc[i].query) =>
            Chunks(ret)[i] = RenderUrl(WithQuery(doc[i].base, doc[i].kept))

\* C3 amended: ... every URL of a known host that parses and has a query ...
C3_StripRemovesSignature ==
    /\ (last = "strip" /\ from = "input") => Len(Chunks(ret)) = Len(doc)
    /\ StripReturned =>
        \A i \in 1..Len(doc) : (doc[i].known /\ doc[i].ok /\ doc[i].query) =>
            Chunks(ret)[i] = RenderUrl(WithQuery(doc[i].base, doc[i].kept))

C3_Witness ==
    /\ StripReturned
    /\ \E i, j \in 1..Len(doc) :
          /\ doc[i].known /\ doc[i].ok /\ doc[i].kept # <<>>
          /\ Chunks(ret)[i] # Chunks(html)[i]
          /\ QM \in {Chunks(ret)[i][n] : n \in 1..Len(Chunks(ret)[i])}
          /\ doc[j].known /\ doc[j].ok /\ doc[j].query /\ doc[j].kept = <<>>
          /\ QM \notin {Chunks(ret)[j][n] : n \in 1..Len(Chunks(ret)[j])}

\* C4: restoreImageSignatures gives every occurrence of a known host whose
\* key the index holds the indexed URL, and leaves every other occurrence.
C4_RestoreReplaces ==
    (RestoreReturned /\ from \in {"input", "swapped"}) =>
        /\ Len(Chunks(ret)) = Len(HtmlDoc)
        /\ \A i \in 1..Len(HtmlDoc) :
              LET x == HtmlDoc[i]
                  j == LastWithKey(OrigDoc, x.key)
              IN  Chunks(ret)[i] =
                      IF x.known /\ x.ok /\ j # 0
                      THEN RenderUrl(OrigDoc[j].text)
                      ELSE RenderUrl(x.text)

C4_Witness ==
    /\ RestoreReturned /\ from = "input" /\ Len(HtmlDoc) = 2
    /\ \E i, j \in 1..2 :
          /\ HtmlDoc[i].known /\ HtmlDoc[i].query
          /\ Chunks(ret)[i] # Chunks(html)[i]
          /\ HtmlDoc[j].known /\ HtmlDoc[j].ok
          /\ LastWithKey(OrigDoc, HtmlDoc[j].key) = 0
          /\ Chunks(ret)[j] = Chunks(html)[j]

\* C5: the Map of a call holds, for each key of this call's originalHtml, the
\* last URL with that key, and nothing else, whatever an earlier call indexed.
C5_IndexLastSeenFresh ==
    (last = "restore") =>
        /\ DOMAIN signedUrls = {OrigDoc[j].key : j \in Indexed(OrigDoc)}
        /\ \A k \in DOMAIN signedUrls :
              signedUrls[k] = OrigDoc[LastWithKey(OrigDoc, k)].text

C5_Witness ==
    /\ last = "restore" /\ from = "swapped" /\ stale
    /\ \E i, j \in Indexed(OrigDoc) :
          /\ i < j /\ OrigDoc[i].key = OrigDoc[j].key
          /\ OrigDoc[i].text # OrigDoc[j].text
          /\ signedUrls[OrigDoc[i].key] = OrigDoc[j].text

\* C6 as stated: an occurrence that does not parse is left as the matched
\* text by both functions, and the index has no entry for it.
C6_Original ==
    /\ StripReturned =>
          \A i \in 1..Len(doc) : (doc[i].known /\ ~doc[i].ok) =>
              Chunks(ret)[i] = Chunks(html)[i]
    /\ (RestoreReturned /\ Len(Chunks(ret)) = Len(HtmlDoc)) =>
          \A i \in 1..Len(HtmlDoc) : (HtmlDoc[i].known /\ ~HtmlDoc[i].ok) =>
              Chunks(ret)[i] = Chunks(html)[i]
    /\ (last = "restore") =>
          \A j \in 1..Len(OrigDoc) : (OrigDoc[j].known /\ ~OrigDoc[j].ok) =>
              \A k \in DOMAIN signedUrls : signedUrls[k] # OrigDoc[j].text

\* C6 amended: restoreImageSignatures leaves an occurrence that does not parse
\* as the matched text and its index has no entry for it;
\* stripImageSignatures replaces such an occurrence by its base URL, the
\* text before the "?", dropping the whole query.
C6_MalformedUrl ==
    /\ StripReturned =>
          \A i \in 1..Len(doc) : (doc[i].known /\ ~doc[i].ok) =>
              Chunks(ret)[i] = RenderUrl(doc[i].base)
    /\ RestoreReturned =>
          /\ Len(Chunks(ret)) = Len(HtmlDoc)
          /\ \A i \in 1..Len(HtmlDoc) : (HtmlDoc[i].known /\ ~HtmlDoc[i].ok) =>
                Chunks(ret)[i] = Chunks(html)[i]
    /\ (last = "restore") =>
          \A j \in 1..Len(OrigDoc) : (OrigDoc[j].known /\ ~OrigDoc[j].ok) =>
              \A k \in DOMAIN signedUrls : signedUrls[k] # OrigDoc[j].text

C6_Witness ==
    \/ /\ StripReturned
       /\ \E i \in 1..Len(doc) :
             /\ doc[i].known /\ ~doc[i].ok /\ doc[i].kept # <<>>
             /\ Chunks(ret)[i] # Chunks(html)[i]
    \/ /\ RestoreReturned /\ from = "input"
       /\ \E i \in 1..Len(doc), j \in 1..Len(origDoc) :
             /\ doc[i].known /\ ~doc[i].ok /\ origDoc[j] = doc[i]
             /\ Chunks(ret)[i] = Chunks(html)[i]

(***************************************************************************)
(* Properties of the codec                                                 *)
(***************************************************************************)
\* the literal pat occurs in s
Contains(s, pat) == FindSeq(s, 1, pat) <= Len(s)

\* C7: htmlToMarkdown and markdownToHtml return a text and do not throw,
\* whatever text they are called on (empty, malformed or unrecognized
\* markup included), and htmlToMarkdown of the empty text is the empty text.
C7_CodecTotal ==
    /\ last \in {"decode", "encode"} => ret # Thrown /\ ret \in Seq(STRING)
    /\ last = "decode" /\ html = <<>> => ret = <<>>

\* both functions have been called on a text with malformed markup in it and
\* a URL that new URL() rejects
C7_Witness ==
    /\ last = "encode" /\ from = "decode" /\ ret # Thrown /\ ret # <<>>
    /\ \E i \in DOMAIN doc : doc[i].kind = "broken"
    /\ \E i \in DOMAIN doc : doc[i].kind = "html-image" /\ ~doc[i].url.ok

\* URL u without its signature
Unsigned(u) == u.base \o (IF u.kept # <<>> THEN <<QM>> \o u.kept ELSE <<>>)

\* an image of the text given whose source is a signed asset URL
SignedImage(b) ==
    b.kind = "html-image" /\ b.url.known /\ Unsigned(b.url) # b.url.text

\* C8 as stated: for an image of h whose source is a signed asset URL,
\* htmlToMarkdown(h) holds the URL without its signature; markdownToHtml of
\* that Markdown with h as originalHtml holds the exact signed URL as the
\* source of an image; without originalHtml it holds the unsigned URL.
C8_SignedImageRoundTrip ==
    \A i \in DOMAIN doc :
        SignedImage(doc[i]) =>
            /\ last = "decode" /\ from = "input" =>
                   Contains(ret, <<LPAR>> \o Unsigned(doc[i].url) \o <<RPAR>>)
            /\ last = "encode" /\ from = "decode" =>
                   Contains(ret, <<SRC>> \o doc[i].url.text \o <<QUOTE>>)
            /\ last = "encode" /\ from = "decodeBare" =>
                   Contains(ret, <<SRC>> \o Unsigned(doc[i].url) \o <<QUOTE>>)

\* the five colors of the registry
Colors == DOMAIN CALLOUT_STYLES

\* the opening tag of a callout div of color c
CalloutDiv(c) ==
    <<DivCallout, StyleBg, CALLOUT_STYLES[c].bg, BorderSep,
      CALLOUT_STYLES[c].border, StyleEnd>>

\* C9 as stated: markdownToHtml of a fenced block tagged callout-x, x none
\* of the five colors, holds a callout div with the gray style pair.
C9_UnknownCalloutGray ==
    last = "encode" /\ from = "input" /\ Len(doc) = 1
        /\ doc[1].kind = "md-callout" /\ doc[1].color \notin Colors
    => Contains(ret, CalloutDiv("gray"))

\* C10 as stated: markdownToHtml of a callout-c fenced block, c one of the
\* five colors, holds a callout div with the registry's pair for c, and
\* htmlToMarkdown of that is the callout-c fenced block with the same inner
\* text; a div whose background is not in the decoder's table decodes to a
\* callout-gray fence.
C10_CalloutRoundTrip ==
    /\ Len(doc) = 1 /\ doc[1].kind = "md-callout" /\ doc[1].color \in Colors =>
           /\ last = "encode" /\ from = "input" =>
                  Contains(ret, CalloutDiv(doc[1].color))
           /\ last = "decode" /\ from = "encode" => ret = doc[1].text
    /\ Len(doc) = 1 /\ doc[1].kind = "html-callout"
           /\ doc[1].color \notin DOMAIN CALLOUT_COLORS
           /\ last = "decode" /\ from = "input" =>
           Contains(ret, Fence \o <<CalloutTag, "gray", NL>>)


\* the number of cells of a line of a Markdown table
CellCount(line) == Cardinality({i \in DOMAIN line : line[i] = PIPE}) - 1

\* the texts of the cells of a line of a Markdown table
LineCells(line) ==
    LET parts == Split(line, PIPE)
    IN  [j \in 1..(Len(parts) - 2) |-> trim(parts[j + 1])]

\* the numbers of <td> of the rows of table container h, the rows without a
\* cell left out
SourceRowWidths(h) ==
    LET parts == Split(h, TrClose)
        width(part) == Cardinality({i \in DOMAIN part : part[i] = TdOpen})
    IN  SelectSeq([k \in DOMAIN parts |-> width(parts[k])], LAMBDA n : n > 0)

\* the lines of text that are not empty
NonBlankLines(text) == SelectSeq(Split(text, NL), LAMBDA l : l # <<>>)

\* lines are a Markdown table for rows of the widths given: a header line, a
\* separator line and a line for every other row, each of as many cells as
\* the widest row has, the cells beyond a row's own being empty
IsPaddedTable(lines, widths) ==
    LET colCount == Greatest({widths[k] : k \in DOMAIN widths})
        rowOf(k) == IF k = 1 THEN 1 ELSE k - 1
    IN  /\ Len(lines) = Len(widths) + 1
        /\ \A k \in DOMAIN lines :
               /\ lines[k][1] = PIPE /\ lines[k][Len(lines[k])] = PIPE
               /\ CellCount(lines[k]) = colCount
               /\ IF k = 2
                  THEN \A j \in 1..colCount :
                           LineCells(lines[k])[j] = <<DASH, DASH, DASH>>
                  ELSE \A j \in 1..colCount :
                           j > widths[rowOf(k)] => LineCells(lines[k])[j] = <<>>

TableOf(h) ==
    LET rows == Split(h, TrClose)
        text(cell) == SelectSeq(Tail2(cell, IndexOf(cell, {TdOpen}) + 1),
                                LAMBDA x : x \notin {POpen, PClose})
        cells(row) == LET parts == Split(row, TdClose)
                      IN  [j \in 1..(Len(parts) - 1) |-> text(parts[j])]
    IN  [k \in 1..(Len(rows) - 1) |-> cells(rows[k])]

\* table after is table before with every row filled up on the right with
\* empty cells to the length of the longest, the rows without a cell left out
IsFilledUp(after, before) ==
    LET rows == SelectSeq(before, LAMBDA r : r # <<>>)
        colCount == Greatest({Len(rows[k]) : k \in DOMAIN rows})
    IN  after = [k \in DOMAIN rows |->
                    [j \in 1..colCount |->
                        IF j <= Len(rows[k]) THEN rows[k][j] ELSE <<>>]]

\* C12 as stated: decoding a table container and encoding the result gives
\* a table of which every row has as many cells as the widest row of the
\* source, with the text of every cell of the source at its column and the
\* cells a row lacks empty, whichever row is the short one and wherever an
\* empty cell stands.
C12_TableRoundTrip ==
    last = "encode" /\ from \in {"decode", "decodeBare"} /\ Len(doc) = 1
        /\ doc[1].kind = "html-table"
    => /\ ret # Thrown
       /\ IsFilledUp(TableOf(ret), TableOf(doc[1].text))

\* the places of text where pat stands
Occurrences(text, pat) == {i \in DOMAIN text : MatchAt(text, i, pat)}

\* C13 as stated: markdownToHtml turns every soft line break, two blanks
\* and a newline, into a <br>, the paragraph pass running before the
\* line-break pass: the text returned has a <br> for each of them.
C13_SoftBreakToBr ==
    last = "encode" /\ from = "input" /\ ret # Thrown
    => Cardinality(Occurrences(ret, <<Br>>))
           >= Cardinality(Occurrences(html, <<SP, SP, NL>>))

\* C14 as stated: htmlToMarkdown turns every <br> into two blanks and a
\* newline, and the two blanks are in the text returned, after the cleanup
\* of whitespace.
C14_BrToSoftBreak ==
    last = "decode" /\ from = "input" /\ ret # Thrown
    => Cardinality(Occurrences(ret, <<SP, SP, NL>>))
           >= Cardinality(Occurrences(html, <<Br>>))

\* the paragraph of a line of text: of class no-margin, and of the class of
\* its alignment when the line starts with a directive
ParagraphOf(b) ==
    <<CASE b.color = "" -> POpen
        [] b.color = "center" -> PCenter
        [] b.color = "right" -> PRight>> \o b.body \o <<PClose>>

\* the text is made of lines alone, or of a list and lines
LinesOnly == \A i \in DOMAIN doc : doc[i].kind \in {"md-line", "md-tagline", "md-list"}

\* C15 as stated: markdownToHtml makes of every line that is not blank, does
\* not start with an HTML tag and is not part of a block of an earlier pass
\* a paragraph of its own, of class no-margin and of the class of its
\* alignment directive if it has one; a line that starts with an HTML tag
\* passes unwrapped; two lines next to each other are not joined.
C15_LineParagraphs ==
    last = "encode" /\ from = "input" /\ doc # <<>> /\ LinesOnly
    => /\ ret # Thrown
       /\ \A i \in DOMAIN doc :
              /\ doc[i].kind = "md-line" =>
                     Cardinality(Occurrences(ret, ParagraphOf(doc[i])))
                         >= Cardinality({j \in DOMAIN doc : doc[j] = doc[i]})
              /\ doc[i].kind = "md-tagline" =>
                     /\ Contains(ret, doc[i].text)
                     /\ ~Contains(ret, <<POpen>> \o doc[i].text)

\* C16 as stated: a collapsible section, an embedded video and a button are
\* carried unchanged by htmlToMarkdown and by markdownToHtml: the text
\* returned holds the node as it was given, the paragraphs, anchors and
\* inline tags inside it included.
C16_OpaqueUnchanged ==
    last \in {"decode", "encode"} /\ from = "input"
    => /\ ret # Thrown
       /\ \A i \in DOMAIN doc :
              doc[i].kind = "html-opaque" => Contains(ret, doc[i].text)

\* C17 as stated: htmlToMarkdown of <pre><code> around the entity-escaped
\* form of t is a fenced block without a language tag whose body is t and
\* nothing else; no later pass rewrites the body, also when t holds text
\* that looks like tags, or blank lines.
C17_CodeBlockBody ==
    last = "decode" /\ from = "input" /\ Len(doc) = 1
        /\ doc[1].kind = "html-code"
    => ret = Fence \o <<NL>> \o doc[1].body \o <<NL>> \o Fence

\* C18 as stated: the text htmlToMarkdown returns has no three newlines in
\* a row, no line that ends in whitespace, and no whitespace at its start or
\* at its end.
C18_CleanWhitespace ==
    last = "decode" /\ ret # Thrown /\ ret # <<>>
    => /\ Occurrences(ret, <<NL, NL, NL>>) = {}
       /\ Occurrences(ret, <<SP, NL>>) = {}
       /\ ret[1] \notin Whitespace /\ ret[Len(ret)] \notin Whitespace

(***************************************************************************)
(* Properties of the codec on images with an alt text                      *)
(***************************************************************************)
\* the text given is made of blocks of that kind, one at least
MadeOf(kind) == doc # <<>> /\ \A k \in DOMAIN doc : doc[k].kind = kind

\* C22 as stated: an image that carries an alt attribute keeps its alt text
\* across the codec: htmlToMarkdown emits ![alt](src) with that alt text
\* (for an aligned container, a plain container and a bare img tag,
\* whatever the attribute order), and markdownToHtml of ![alt](src) emits
\* an img tag with the same src and alt.
C22_AltKept ==
    /\ (last = "decode" /\ from = "input" /\ MadeOf("html-alt-image")) =>
           \A k \in DOMAIN doc :
               Occurrences(ret, <<BANG, LBR>> \o doc[k].body \o <<RBR, LPAR>>
                                    \o doc[k].url.text \o <<RPAR>>) # {}
    /\ (last = "encode" /\ from = "input" /\ MadeOf("md-alt-image")) =>
           \A k \in DOMAIN doc :
               Occurrences(ret, ImgAlt(doc[k].url.text, doc[k].body, FALSE)) # {}

(***************************************************************************)
(* Properties of markdownToHtml on fenced blocks                           *)
(***************************************************************************)
\* the blocks of the text given that are equal to its k-th
SameAs(at) == {j \in DOMAIN doc : doc[j] = doc[at]}

\* the element a fenced code block is to become
PreCodeOf(b) == <<Pre, CodeOpen>> \o encodeHtmlEntities(b.body) \o <<CodeClose, PreClose>>

\* the paragraph and the end of the div a callout of plain words is to become
CalloutParagraphOf(b) == <<POpen>> \o b.body \o <<PClose, DivClose>>

\* C28 as stated: in markdownToHtml the content of a block produced by an
\* earlier pass is not rewritten by a later pass: the body of a fenced code
\* block, bodies of several lines included, reaches the output as its
\* entity-escaped text inside one <pre><code> element, no line of it turned
\* into a heading, list, paragraph, link or inline-format tag, and the body
\* of a callout of several lines stays inside its single paragraph and div.
C28_BlocksNotRewritten ==
    last = "encode" /\ from = "input"
        /\ (\A k \in DOMAIN doc : doc[k].kind \in {"md-code", "md-callout"})
    => /\ ret # Thrown
       /\ \A k \in DOMAIN doc :
              /\ doc[k].kind = "md-code" =>
                     Cardinality(Occurrences(ret, PreCodeOf(doc[k])))
                         >= Cardinality(SameAs(k))
              /\ doc[k].kind = "md-callout" =>
                     Cardinality(Occurrences(ret, CalloutParagraphOf(doc[k])))
                         >= Cardinality(SameAs(k))
       /\ Cardinality(Occurrences(ret, <<POpen>>))
              = Cardinality({k \in DOMAIN doc : doc[k].kind = "md-callout"})

(***************************************************************************)
(* Properties of the push                                                  *)
(***************************************************************************)
\* the calls of the client, the writes of files, made since dryRun or
\* syncFile began
CallsSince == SubSeq(calls, entered.calls + 1, Len(calls))
WritesSince == SubSeq(writes, entered.writes + 1, Len(writes))

\* the calls of operation op among cs
CallsOf(cs, op) == SelectSeq(cs, LAMBDA c : c.op = op)

\* syncArticleGroup has ended, by a return or by a throw
GroupEnded == step = "sync.done"

\* with an id: one updateArticle for it, no createArticle, no file written
UpdatesOnly ==
    /\ Len(CallsOf(CallsSince, "updateArticle")) = 1
    /\ CallsOf(CallsSince, "updateArticle")[1].id = intercomId
    /\ CallsOf(CallsSince, "createArticle") = <<>>
    /\ WritesSince = <<>>

\* C19 as stated: syncArticleGroup with an id makes exactly one
\* updateArticle call for that id, no createArticle call, writes no file and
\* adds one to result.updated; without an id it makes exactly one
\* createArticle call, rewrites every file of the group with the id
\* returned and adds one to result.created.
C19_Original ==
    GroupEnded =>
        IF intercomId # NoId
        THEN UpdatesOnly /\ syncResult.updated = 1
        ELSE /\ Len(CallsOf(CallsSince, "createArticle")) = 1
             /\ CallsOf(CallsSince, "updateArticle") = <<>>
             /\ Len(WritesSince) = Len(articles)
             /\ \A k \in DOMAIN articles :
                    /\ created # NoId
                    /\ disk[articles[k].filePath].intercom_id = created
             /\ syncResult.created = 1

\* C19: syncArticleGroup with an id makes exactly one updateArticle call for
\* that id, no createArticle call and writes no file; result.updated is one
\* more when the call succeeded, and unchanged, with the error noted by
\* syncFile, when it threw.  Without an id it makes exactly one
\* createArticle call and no updateArticle call; when that call succeeded
\* it rewrites the files of the group in their order with the id returned,
\* up to the first write that throws, and result.created is one more when
\* all of them were written; otherwise result.created is unchanged and the
\* error is noted.
C19_CreateOrUpdate ==
    GroupEnded =>
        IF intercomId # NoId
        THEN /\ UpdatesOnly
             /\ IF CallsOf(CallsSince, "updateArticle")[1].ok
                THEN syncResult = [NewResult EXCEPT !.updated = 1]
                ELSE syncResult = Failed(NewResult)
        ELSE /\ Len(CallsOf(CallsSince, "createArticle")) = 1
             /\ CallsOf(CallsSince, "updateArticle") = <<>>
             /\ IF CallsOf(CallsSince, "createArticle")[1].ok
                THEN /\ created = CallsOf(CallsSince, "createArticle")[1].id
                     /\ created # NoId
                     /\ WritesSince = [k \in 1..written |->
                                          [filePath |-> articles[k].filePath,
                                           intercom_id |-> created]]
                     /\ \A k \in 1..written :
                            disk[articles[k].filePath].intercom_id = created
                     /\ IF written = Len(articles)
                        THEN syncResult = [NewResult EXCEPT !.created = 1]
                        ELSE syncResult = Failed(NewResult)
                ELSE /\ WritesSince = <<>>
                     /\ syncResult = Failed(NewResult)

\* a group of two files without an id has been created and both files have
\* been rewritten; before it, a file with an id has been updated
C19_Witness ==
    /\ GroupEnded /\ intercomId = NoId /\ Len(articles) = 2
    /\ written = 2 /\ syncResult.created = 1
    /\ totals.updated = 1

\* C20: a dry run changes nothing.  dryRun makes no call of the client but
\* at most one getArticle, and writes no file; the push command with
\* --dry-run never calls syncFile, so that no createArticle, updateArticle
\* or deleteArticle call is made and no file is written during it.
C20_DryRunChangesNothing ==
    /\ step \in {"dryRun.get", "dryRun.done"} =>
           /\ Len(CallsSince) <= 1
           /\ \A k \in DOMAIN CallsSince : CallsSince[k].op = "getArticle"
           /\ WritesSince = <<>>
    /\ options.dryRun =>
           /\ step \in {"push", "dryRun.get", "dryRun.done"}
           /\ \A k \in DOMAIN calls : calls[k].op = "getArticle"
           /\ writes = <<>>

\* a dry run of two files, each of them with an id, has ended
C20_Witness ==
    /\ options.dryRun /\ step = "push" /\ queue = <<>>
    /\ Len(calls) = 2 /\ totals.errors = 0

(***************************************************************************)
(* Properties of SyncToIntercom.syncAll                                    *)
(***************************************************************************)
\* the create or update request of the group syncArticleGroup ran on last
LastRequest == calls[Len(calls)]

\* syncArticleGroup has run on the group held in articles
GroupSynced == done > 0 /\ articles # <<>>

\* the articles of the group, by position, that have a translations map
\* with an entry; those whose locale is the configured default locale
HaveTranslations == {k \in DOMAIN articles : Len(articles[k].translations) > 0}
HaveDefaultLocale == {k \in DOMAIN articles : articles[k].locale = config.defaultLocale}

\* position k is the first of the positions ks
IsFirstOf(k, ks) == k \in ks /\ \A j \in ks : k <= j

\* C21: findDefaultArticle on a non-empty list returns a member of the
\* list, chosen by this priority: the first article with a non-empty
\* translations map; otherwise, when config.defaultLocale is set, the first
\* article whose locale equals it; otherwise the first article of the
\* list.  The article chosen is the one whose content is the body of the
\* request.
C21_DefaultArticlePriority ==
    GroupSynced =>
        \E k \in DOMAIN articles :
            /\ LastRequest.data.body = articles[k].filePath
            /\ IF HaveTranslations # {} THEN IsFirstOf(k, HaveTranslations)
               ELSE IF config.defaultLocale # NoLocale /\ HaveDefaultLocale # {}
               THEN IsFirstOf(k, HaveDefaultLocale)
               ELSE k = 1

\* a group of two articles without translations has been synced, the
\* second of them in the configured default locale and the first not
C21_Witness ==
    /\ GroupSynced /\ Len(articles) = 2 /\ HaveTranslations = {}
    /\ config.defaultLocale = "en"
    /\ articles[1].locale = "ja" /\ articles[2].locale = "en"
    /\ LastRequest.data.body = articles[2].filePath

\* the create and update requests made so far
Requests == SelectSeq(calls, LAMBDA c : c.op \in {"createArticle", "updateArticle"})

\* the content of the file at path goes with request c, as its default body
\* or as the body of one of its translations
SentIn(path, c) ==
    \/ c.data.body = path
    \/ \E l \in DOMAIN c.data.translated_content : c.data.translated_content[l] = path

\* syncAll has returned, and it had its list of files
AllReturned == step = "all.done" /\ syncResult.success

\* C29 as stated: in SyncToIntercom.syncAll the content of every local file
\* that is read successfully is sent to the remote in exactly one create or
\* update request, as the default body or as a translation body, also when
\* several files have no intercom_id and when two files of one group have
\* the same locale.
C29_EveryFileSentOnce ==
    AllReturned =>
        \A path \in DOMAIN disk :
            disk[path].present =>
                Cardinality({k \in DOMAIN Requests : SentIn(path, Requests[k])}) = 1

(***************************************************************************)
(* Properties of the paging of IntercomClient                              *)
(***************************************************************************)
\* the items of pages 1..n of the list at ep, in page order
RECURSIVE PagesUpTo(_, _)
PagesUpTo(ep, n) == IF n = 0 THEN <<>> ELSE PagesUpTo(ep, n - 1) \o PageData(ep, n)

\* a server that always gives the total_pages of its first response
Constant(sv) == [k \in DOMAIN sv |-> sv[1]]

\* the call has returned its array
HasReturned == returned # <<>> /\ returned # Thrown

\* the requests are those of pages 1, 2, 3, ... in this order, one each,
\* and every response but the last carried a total_pages greater than its
\* page; the array returned holds the items of the pages fetched, in page
\* order, and the last response carried a total_pages not greater than its
\* page; with a constant total_pages N >= 1 the pages fetched are 1..N
PagesInOrder ==
    /\ requests = [k \in 1..Len(requests) |-> [path |-> endpoint, page |-> k]]
    /\ \A k \in 1..(Len(requests) - 1) : server[k] > k
    /\ HasReturned =>
           /\ Len(requests) >= 1
           /\ server[Len(requests)] <= Len(requests)
           /\ returned = <<PagesUpTo(endpoint, Len(requests))>>
           /\ (server = Constant(server) /\ server[1] >= 1) => Len(requests) = server[1]

\* C27: getAllArticles and getAllCollections request page 1, 2, 3, ... in
\* increasing order, one request per page, stop after the first response
\* whose total_pages is not greater than the page just fetched, and return
\* the items of all fetched pages concatenated in page order; with a
\* constant total_pages = N >= 1 they fetch exactly pages 1..N, and they
\* fetch page 1 even when total_pages is 0.  The call terminates: it
\* returns, or a request rejects.
C27_Paging == []PagesInOrder /\ <>(returned # <<>>)

\* getAllCollections has returned the items of three pages from a server
\* whose total_pages is always 3
C27_Witness ==
    /\ HasReturned /\ endpoint = "/help_center/collections"
    /\ server = Constant(server) /\ server[1] = 3 /\ Len(requests) = 3
    /\ Len(returned[1]) = 3

(***************************************************************************)
(* Properties of SyncFromIntercom                                          *)
(***************************************************************************)
\* syncArticle has completed without an error
ArticleSynced == pullStep = "synced"

\* the calls of syncArticleLocale for the translations of the article
TranslationsSynced == Tail(synced)

\* the file written for the k-th locale synced is in the directory, with
\* the front matter written
FileKept(k) ==
    /\ synced[k].filePath \in DOMAIN articlesDir
    /\ articlesDir[synced[k].filePath] = synced[k].frontMatter

\* C24 as stated: after syncArticle completes without error for an article
\* with a default locale and one or more translations that are synced, the
\* articles directory holds one file for each of those locales: the file
\* written for one locale is not deleted while a later locale of the same
\* article is synced, in a first pull and in every later pull.
C24_OneFilePerLocale ==
    (ArticleSynced /\ Len(synced) >= 2) => \A k \in DOMAIN synced : FileKept(k)

\* the translations map of the front matter written for the default locale
DefaultTranslations == synced[1].frontMatter.translations

\* C25 as stated: for every translation that a pull writes to disk, the
\* path recorded for that locale in the translations map of the
\* default-locale file's front matter equals the path, relative to
\* articlesDir, at which the translation file is written, and the map has an
\* entry for exactly the locales whose translation file is written.
C25_TranslationPaths ==
    ArticleSynced =>
        /\ \A k \in DOMAIN TranslationsSynced :
               [locale |-> TranslationsSynced[k].locale,
                path |-> TranslationsSynced[k].filePath] \in DefaultTranslations
        /\ {e.locale : e \in DefaultTranslations}
               = {TranslationsSynced[k].locale : k \in DOMAIN TranslationsSynced}

\* the error the outer catch of syncAll notes
OuterError == [kind |-> "syncAll"]

\* SyncFromIntercom.syncAll is the method running, or SyncToIntercom.syncAll
Pulling == pullStep # "none"
PushingAll == step \in {"all.list", "all.read", "all.done"}

\* syncArticle threw for the article taken last: it did not sync all the
\* locales it had to
ArticleThrew ==
    /\ pullStep \in {"articles", "returned"} /\ pulled # NoArticle
    /\ Len(synced) < 1 + Len(Taken(pulled, supportedLocales))

\* the errors of the result that name the article of that id
ErrorsOfArticle(r, id) ==
    SelectSeq(r.errors, LAMBDA e : "articleId" \in DOMAIN e /\ e.articleId = id)

\* the files getAllMarkdownFiles listed that readArticle could not read
Unreadable == {p \in DOMAIN disk : ~disk[p].present}

\* the groups syncArticleGroup threw for: a request that rejected, or a
\* created article whose files were not all written
GroupsThrown ==
    Cardinality({k \in DOMAIN Requests : ~Requests[k].ok})
        + Cardinality({k \in DOMAIN Requests :
                          /\ Requests[k].ok /\ Requests[k].op = "createArticle"
                          /\ \E g \in DOMAIN groups :
                                 /\ groups[g].id = NoId
                                 /\ Len(writes) < Len(groups[g].articles)})

\* the locales syncArticle has to sync for the articles as: for each the
\* default locale and the translations taken
RECURSIVE LocalesDue(_)
LocalesDue(as) ==
    IF as = <<>> THEN 0
    ELSE 1 + Len(Taken(as[1], supportedLocales)) + LocalesDue(Tail(as))

\* the articles listed that the result has no error for
CleanArticles ==
    SelectSeq(inventory, LAMBDA a : ErrorsOfArticle(pullResult, a.id) = <<>>)

\* SyncFromIntercom.syncAll: success is false only after loadCollections or
\* getAllArticles threw, and then no article was synced; an article whose
\* sync throws is noted in result.errors and success stays true; at the
\* return every article has been taken: each has one error or none, and
\* the result counts every locale of the articles without an error
PullErrorsNoted ==
    /\ ~pullResult.success =>
           /\ pullStep = "returned" /\ pullResult.errors = <<OuterError>>
           /\ pullResult.created = 0 /\ pullResult.updated = 0 /\ synced = <<>>
    /\ ArticleThrew =>
           /\ pullResult.success
           /\ pullResult.errors[Len(pullResult.errors)] = [articleId |-> pulled.id]
    /\ (pullStep = "returned" /\ pullResult.success) =>
           /\ remaining = <<>>
           /\ \A k \in DOMAIN inventory :
                  Len(ErrorsOfArticle(pullResult, inventory[k].id)) <= 1
           /\ Len(pullResult.errors) = Len(inventory) - Len(CleanArticles)
           /\ pullResult.created + pullResult.updated >= LocalesDue(CleanArticles)
           /\ pullResult.created + pullResult.updated
                  <= LocalesDue(inventory) - Len(pullResult.errors)

\* SyncToIntercom.syncAll: success is false only after getAllMarkdownFiles
\* threw, and then no file was read and no group synced; at the return
\* every file has been read or noted, every group has had its request, and
\* the errors are those of the unreadable files and of the groups thrown
PushErrorsNoted ==
    /\ ~syncResult.success =>
           /\ step = "all.done" /\ syncResult.errors = <<OuterError>>
           /\ groups = <<>> /\ calls = <<>> /\ writes = <<>>
    /\ (step = "all.done" /\ syncResult.success) =>
           /\ queue = <<>> /\ done = Len(groups)
           /\ Len(Requests) = Len(groups)
           /\ {e.file : e \in {syncResult.errors[k] : k \in
                  {j \in DOMAIN syncResult.errors : "file" \in DOMAIN syncResult.errors[j]}}}
                  = Unreadable
           /\ Len(syncResult.errors) = Cardinality(Unreadable) + GroupsThrown

\* C26: in SyncFromIntercom.syncAll and SyncToIntercom.syncAll, when syncing
\* one article or article group throws, the error is appended to
\* result.errors, every remaining article or group is still processed, and
\* result.success stays true; result.success is set to false only when the
\* enclosing step (loading collections, listing articles, listing files)
\* throws, in which case no further item is processed.
C26_ErrorsDoNotStopSyncAll ==
    /\ Pulling => PullErrorsNoted
    /\ PushingAll => PushErrorsNoted

\* a pull has returned with success: the sync of the first of two articles
\* threw and was noted, and the second has its file
C26_Witness ==
    /\ Pulling /\ pullStep = "returned" /\ pullResult.success /\ Len(inventory) = 2
    /\ pullResult.errors = <<[articleId |-> 1]>>
    /\ FilesOfId(articlesDir, 2) # {}

(***************************************************************************)
(* Properties of the init command                                          *)
(***************************************************************************)
\* the init command is running or has run
Initializing == initStep # "none"

\* C23: the init command creates .intercom-config.json, .gitignore and
\* README.md in the target directory only when the file does not exist
\* yet: a file that already exists is left with its contents unchanged, a
\* file that does not is written with the content of the command, and after
\* a run that completed a second run changes nothing.
C23_InitCreatesOnlyMissing ==
    Initializing =>
        /\ \A f \in InitFiles :
               /\ found.dir.files[f] # Absent =>
                      targetDir.files[f] = found.dir.files[f]
               /\ targetDir.files[f] \in {found.dir.files[f], InitContent(f)}
               /\ initStep = "done" => targetDir.files[f] # Absent
        /\ found.ended = "done" => targetDir = found.dir

\* a second run has completed after a first that completed, in a directory
\* that holds a README.md of its own and the other two files as written
C23_Witness ==
    /\ inits = 2 /\ initStep = "done" /\ found.ended = "done"
    /\ targetDir.files["README.md"] = OwnContent
    /\ targetDir.files[".gitignore"] = InitContent(".gitignore")
    /\ targetDir.files[".intercom-config.json"] = InitContent(".intercom-config.json")
=============================================================================
